---- MODULE Spec2Model ----
(***************************************************************************)
(* Model of the Feishu document processor                                  *)
(* (skills/feishu-analyst/scripts/document_processor.py).                  *)
(*                                                                         *)
(* Python values are tagged records:                                       *)
(*   None   [k |-> "none"]                                                 *)
(*   bool   [k |-> "bool", b |-> BOOLEAN]                                  *)
(*   int    [k |-> "int",  n |-> Int]                                      *)
(*   str    [k |-> "str",  s |-> sequence of characters]                   *)
(*   list   [k |-> "list", v |-> sequence of values]                       *)
(*   dict   [k |-> "dict", d |-> function from keys to values]             *)
(* and a raised exception, as the value of the expression that raised it,  *)
(*          [k |-> "exc", e |-> name of the exception].                    *)
(* A str is a sequence of one-character strings; a dict key is the same    *)
(* kind of sequence, except that a field name of the program ("text",      *)
(* "block_id", ...) is written as the one-symbol sequence <<"text">>: the  *)
(* code never looks inside a field name.  In the same way a run of        *)
(* ordinary letters that the code only copies or compares as a whole (a    *)
(* literal such as "mention_doc" or "[Image]") may be written as one       *)
(* symbol; every character the code inspects (brackets, quote, backslash,  *)
(* `|`, white space) is a symbol of its own.                               *)
(***************************************************************************)
EXTENDS Integers, Sequences, FiniteSets, TLC

VARIABLES
    pc,          \* which call has been made: "start" before any
    raw_blocks,  \* the argument of the call
    opts,        \* the keyword arguments of to_markdown and iter_blocks
    ret,         \* the value the call returned
    exc          \* the exception the call raised, "none" if it returned

vars == <<pc, raw_blocks, opts, ret, exc>>

(***************************************************************************)
(* Python values                                                           *)
(***************************************************************************)
None == [k |-> "none"]
Bool(b) == [k |-> "bool", b |-> b]
Int_(n) == [k |-> "int", n |-> n]
Str(s) == [k |-> "str", s |-> s]
List(v) == [k |-> "list", v |-> v]
Dict(d) == [k |-> "dict", d |-> d]

EmptyDict == Dict(<<>>)
EmptyList == List(<<>>)
EmptyStr == Str(<<>>)

IsNone(x) == x.k = "none"
IsStr(x) == x.k = "str"
IsList(x) == x.k = "list"
IsDict(x) == x.k = "dict"
\* an int, or a bool (True is 1, False is 0)
IsInt(x) == x.k \in {"int", "bool"}
IntVal(x) == IF x.k = "bool" THEN (IF x.b THEN 1 ELSE 0) ELSE x.n

\* x == n for an int n
EqInt(x, n) == IsInt(x) /\ IntVal(x) = n

\* "name" in d
Has(x, name) == <<name>> \in DOMAIN x.d

\* d[name]
Item(x, name) == x.d[<<name>>]

\* d.get(name, default)
Get(x, name, default) == IF Has(x, name) THEN Item(x, name) ELSE default

\* bool(x)
Truthy(x) ==
    CASE x.k = "none" -> FALSE
      [] x.k = "bool" -> x.b
      [] x.k = "int" -> x.n # 0
      [] x.k = "str" -> x.s # <<>>
      [] x.k = "list" -> x.v # <<>>
      [] x.k = "dict" -> DOMAIN x.d # {}

\* a dict literal from a sequence of <<field name, value>> pairs
MkDict(pairs) ==
    Dict([key \in {<<pairs[i][1]>> : i \in DOMAIN pairs} |->
            LET i == CHOOSE j \in DOMAIN pairs :
                        /\ <<pairs[j][1]>> = key
                        /\ \A m \in DOMAIN pairs : <<pairs[m][1]>> = key => m <= j
            IN pairs[i][2]])

\* the least element of a set of numbers
Min(S) == CHOOSE x \in S : \A y \in S : x <= y

\* text.startswith(c)
StartsWith(s, c) == Len(s) >= 1 /\ s[1] = c

\* text[:n]
Prefix(s, n) == SubSeq(s, 1, n)

\* the value x of a call, handed to what follows the call
Let(x, F(_)) == F(x)

RECURSIVE JoinSeqs(_, _)
\* sep.join(parts) for sequences of characters
JoinSeqs(parts, sep) ==
    IF parts = <<>> THEN <<>>
    ELSE IF Len(parts) = 1 THEN parts[1]
    ELSE parts[1] \o sep \o JoinSeqs(Tail(parts), sep)

(***************************************************************************)
(* json.loads / json.dumps on the characters the model uses                *)
(***************************************************************************)
Quote == "\""
Backslash == "\\"
Whitespace == {" ", "\t", "\n", "\r"}
DigitChars == <<"0", "1", "2", "3", "4", "5", "6", "7", "8", "9">>
Digits == {DigitChars[i] : i \in DOMAIN DigitChars}
DigitVal(c) == (CHOOSE i \in DOMAIN DigitChars : DigitChars[i] = c) - 1

\* a scanner result: the value and the index after it, or a JSONDecodeError
ScanOk(val, pos) == [ok |-> TRUE, val |-> val, pos |-> pos]
ScanFail == [ok |-> FALSE, val |-> None, pos |-> 0]

RECURSIVE SkipWs(_, _)
SkipWs(s, i) == IF i <= Len(s) /\ s[i] \in Whitespace THEN SkipWs(s, i + 1) ELSE i

\* s[i:i+len(w)] == w
Matches(s, i, w) == i + Len(w) - 1 <= Len(s) /\ SubSeq(s, i, i + Len(w) - 1) = w

\* the one-letter escapes of the decoder (the four-digit \u form is not modelled:
\* the texts of the model hold no letter u after a backslash)
EscapeLetters == {"/", "n", "r", "t", "f"}
BACKSLASH(c) ==
    CASE c = "/" -> "/" [] c = "n" -> "\n" [] c = "r" -> "\r"
      [] c = "t" -> "\t" [] c = "f" -> "\f"

RECURSIVE py_scanstring(_, _, _)
\* the characters after an opening quote, up to the closing quote
py_scanstring(s, i, acc) ==
    IF i > Len(s) THEN ScanFail
    ELSE IF s[i] = Quote THEN ScanOk(Str(acc), i + 1)
    ELSE IF s[i] = Backslash THEN
        IF i + 1 <= Len(s) /\ s[i + 1] \in {Quote, Backslash}
        THEN py_scanstring(s, i + 2, Append(acc, s[i + 1]))
        ELSE IF i + 1 <= Len(s) /\ s[i + 1] \in EscapeLetters
        THEN py_scanstring(s, i + 2, Append(acc, BACKSLASH(s[i + 1])))
        ELSE ScanFail
    ELSE IF s[i] \in {"\n", "\r", "\t", "\f"} THEN ScanFail
    ELSE py_scanstring(s, i + 1, Append(acc, s[i]))

RECURSIVE scan_digits(_, _, _)
scan_digits(s, i, n) ==
    IF i <= Len(s) /\ s[i] \in Digits
    THEN scan_digits(s, i + 1, 10 * n + DigitVal(s[i]))
    ELSE ScanOk(Int_(n), i)

RECURSIVE scan_once(_, _), scan_array(_, _, _), scan_object(_, _, _)
scan_once(s, i) ==
    IF i > Len(s) THEN ScanFail
    ELSE IF s[i] = Quote THEN py_scanstring(s, i + 1, <<>>)
    ELSE IF s[i] = "[" THEN
        LET j == SkipWs(s, i + 1) IN
        IF j <= Len(s) /\ s[j] = "]" THEN ScanOk(EmptyList, j + 1)
        ELSE scan_array(s, j, <<>>)
    ELSE IF s[i] = "{" THEN
        LET j == SkipWs(s, i + 1) IN
        IF j <= Len(s) /\ s[j] = "}" THEN ScanOk(EmptyDict, j + 1)
        ELSE scan_object(s, j, <<>>)
    ELSE IF s[i] = "0" THEN ScanOk(Int_(0), i + 1)
    ELSE IF s[i] \in Digits THEN scan_digits(s, i, 0)
    ELSE IF Matches(s, i, <<"n", "u", "l", "l">>) THEN ScanOk(None, i + 4)
    ELSE IF Matches(s, i, <<"t", "r", "u", "e">>) THEN ScanOk(Bool(TRUE), i + 4)
    ELSE IF Matches(s, i, <<"f", "a", "l", "s", "e">>) THEN ScanOk(Bool(FALSE), i + 5)
    ELSE ScanFail

\* the elements of an array from index i on, acc holding those already read
scan_array(s, i, acc) ==
    LET r == scan_once(s, i) IN
    IF ~r.ok THEN ScanFail
    ELSE LET j == SkipWs(s, r.pos) IN
         IF j > Len(s) THEN ScanFail
         ELSE IF s[j] = "]" THEN ScanOk(List(Append(acc, r.val)), j + 1)
         ELSE IF s[j] = "," THEN scan_array(s, SkipWs(s, j + 1), Append(acc, r.val))
         ELSE ScanFail

\* the members of an object from index i on, acc holding those already read
scan_object(s, i, acc) ==
    IF i > Len(s) \/ s[i] # Quote THEN ScanFail
    ELSE LET key == py_scanstring(s, i + 1, <<>>) IN
         IF ~key.ok THEN ScanFail
         ELSE LET c == SkipWs(s, key.pos) IN
              IF c > Len(s) \/ s[c] # ":" THEN ScanFail
              ELSE LET r == scan_once(s, SkipWs(s, c + 1)) IN
                   IF ~r.ok THEN ScanFail
                   ELSE LET j == SkipWs(s, r.pos)
                            d == (key.val.s :> r.val) @@ acc
                        IN IF j > Len(s) THEN ScanFail
                           ELSE IF s[j] = "}" THEN ScanOk(Dict(d), j + 1)
                           ELSE IF s[j] = "," THEN scan_object(s, SkipWs(s, j + 1), d)
                           ELSE ScanFail

\* json.loads(s): ok = FALSE stands for a raised json.JSONDecodeError
json_loads(s) ==
    LET r == scan_once(s, SkipWs(s, 1)) IN
    IF r.ok /\ SkipWs(s, r.pos) > Len(s) THEN r ELSE ScanFail

RECURSIVE encode_chars(_)
\* the body of an encoded string: quote and backslash get a backslash,
\* a control character its letter
encode_chars(s) ==
    IF s = <<>> THEN <<>>
    ELSE (IF s[1] \in {Quote, Backslash} THEN <<Backslash, s[1]>>
          ELSE IF s[1] = "\n" THEN <<Backslash, "n">>
          ELSE IF s[1] = "\r" THEN <<Backslash, "r">>
          ELSE IF s[1] = "\t" THEN <<Backslash, "t">>
          ELSE IF s[1] = "\f" THEN <<Backslash, "f">>
          ELSE <<s[1]>>)
         \o encode_chars(Tail(s))

encode_str(s) == <<Quote>> \o encode_chars(s) \o <<Quote>>

RECURSIVE encode_int(_)
encode_int(n) ==
    IF n < 10 THEN <<DigitChars[n + 1]>>
    ELSE encode_int(n \div 10) \o <<DigitChars[(n % 10) + 1]>>

RECURSIVE SetToSeq(_)
\* the keys of a dict in some fixed order
SetToSeq(S) ==
    IF S = {} THEN <<>>
    ELSE LET x == CHOOSE y \in S : TRUE IN <<x>> \o SetToSeq(S \ {x})

RECURSIVE json_dumps(_)
\* json.dumps(x) with the default separators ", " and ": "
json_dumps(x) ==
    CASE x.k = "none" -> <<"n", "u", "l", "l">>
      [] x.k = "bool" -> IF x.b THEN <<"t", "r", "u", "e">> ELSE <<"f", "a", "l", "s", "e">>
      [] x.k = "int" -> encode_int(x.n)
      [] x.k = "str" -> encode_str(x.s)
      [] x.k = "list" ->
            <<"[">> \o JoinSeqs([i \in DOMAIN x.v |-> json_dumps(x.v[i])], <<",", " ">>) \o <<"]">>
      [] x.k = "dict" ->
            LET keys == SetToSeq(DOMAIN x.d) IN
            <<"{">> \o JoinSeqs([i \in DOMAIN keys |->
                            encode_str(keys[i]) \o <<":", " ">> \o json_dumps(x.d[keys[i]])],
                         <<",", " ">>) \o <<"}">>

(***************************************************************************)
(* Envelope normalizer                                                     *)
(***************************************************************************)
\* what a call gives back: a returned value, or the name of a raised exception
Return(v) == [ret |-> v, exc |-> "none"]
Raise(e) == [ret |-> None, exc |-> e]

RECURSIVE extract_scan_counting_in_strings(_, _, _, _, _)
\* extract_scan that counts brackets inside strings as well
extract_scan_counting_in_strings(text, i, bracket_count, in_string, escape_next) ==
    IF i > Len(text) THEN None
    ELSE IF text[i] = "["
        THEN extract_scan_counting_in_strings(text, i + 1, bracket_count + 1, in_string, escape_next)
    ELSE IF text[i] = "]"
        THEN IF bracket_count - 1 = 0 THEN Str(Prefix(text, i))
             ELSE extract_scan_counting_in_strings(text, i + 1, bracket_count - 1, in_string, escape_next)
    ELSE extract_scan_counting_in_strings(text, i + 1, bracket_count, in_string, escape_next)

RECURSIVE extract_scan(_, _, _, _, _)
\* the for loop of _extract_json_from_text from index i on
extract_scan(text, i, bracket_count, in_string, escape_next) ==
    IF i > Len(text) THEN None
    ELSE IF escape_next THEN extract_scan(text, i + 1, bracket_count, in_string, FALSE)
    ELSE IF text[i] = Backslash /\ in_string
        THEN extract_scan(text, i + 1, bracket_count, in_string, TRUE)
    ELSE IF text[i] = Quote /\ ~escape_next
        THEN extract_scan(text, i + 1, bracket_count, ~in_string, escape_next)
    ELSE IF ~in_string /\ text[i] = "["
        THEN extract_scan(text, i + 1, bracket_count + 1, in_string, escape_next)
    ELSE IF ~in_string /\ text[i] = "]"
        THEN IF bracket_count - 1 = 0 THEN Str(Prefix(text, i))
             ELSE extract_scan(text, i + 1, bracket_count - 1, in_string, escape_next)
    ELSE extract_scan(text, i + 1, bracket_count, in_string, escape_next)

\* _extract_json_from_text(text): a str, or None
_extract_json_from_text(text) ==
    IF ~StartsWith(text, "[") THEN None
    ELSE extract_scan(text, 1, 0, FALSE, FALSE)

\* normalize_blocks that returns every input it does not unwrap, a list or not
normalize_blocks_returning_input(raw) ==
    LET as_is == Return(raw) IN
    IF IsList(raw) /\ Len(raw.v) = 1 THEN
        LET first == raw.v[1] IN
        IF IsDict(first) /\ Has(first, "text") THEN
            LET text_content == Item(first, "text") IN
            IF IsStr(text_content) THEN
                LET parsed == json_loads(text_content.s) IN
                IF parsed.ok THEN
                    IF IsList(parsed.val) THEN Return(parsed.val) ELSE as_is
                ELSE
                    LET json_part == _extract_json_from_text(text_content.s) IN
                    IF IsNone(json_part) THEN as_is
                    ELSE LET parsed2 == json_loads(json_part.s) IN
                         IF parsed2.ok THEN
                             IF IsList(parsed2.val) THEN Return(parsed2.val) ELSE as_is
                         ELSE as_is
            ELSE as_is
        ELSE as_is
    ELSE as_is

\* normalize_blocks that does not return the list the full text parses to
normalize_blocks_keeping_envelope(raw) ==
    LET as_is == IF IsList(raw) THEN Return(raw) ELSE Return(EmptyList) IN
    IF IsList(raw) /\ Len(raw.v) = 1 THEN
        LET first == raw.v[1] IN
        IF IsDict(first) /\ Has(first, "text") THEN
            LET text_content == Item(first, "text") IN
            IF IsStr(text_content) THEN
                LET parsed == json_loads(text_content.s) IN
                IF parsed.ok THEN
                    IF IsList(parsed.val) THEN as_is ELSE as_is
                ELSE
                    LET json_part == _extract_json_from_text(text_content.s) IN
                    IF IsNone(json_part) THEN as_is
                    ELSE LET parsed2 == json_loads(json_part.s) IN
                         IF parsed2.ok THEN
                             IF IsList(parsed2.val) THEN Return(parsed2.val) ELSE as_is
                         ELSE as_is
            ELSE as_is
        ELSE as_is
    ELSE as_is

\* normalize_blocks without the except clause around the parse of the extracted text
normalize_blocks_uncaught(raw) ==
    LET as_is == IF IsList(raw) THEN Return(raw) ELSE Return(EmptyList) IN
    IF IsList(raw) /\ Len(raw.v) = 1 THEN
        LET first == raw.v[1] IN
        IF IsDict(first) /\ Has(first, "text") THEN
            LET text_content == Item(first, "text") IN
            IF IsStr(text_content) THEN
                LET parsed == json_loads(text_content.s) IN
                IF parsed.ok THEN
                    IF IsList(parsed.val) THEN Return(parsed.val) ELSE as_is
                ELSE
                    LET json_part == _extract_json_from_text(text_content.s) IN
                    IF IsNone(json_part) THEN as_is
                    ELSE LET parsed2 == json_loads(json_part.s) IN
                         IF parsed2.ok THEN
                             IF IsList(parsed2.val) THEN Return(parsed2.val) ELSE as_is
                         ELSE Raise("JSONDecodeError")
            ELSE as_is
        ELSE as_is
    ELSE as_is

\* normalize_blocks that unwraps the first element of a list of any length
normalize_blocks_first_element(raw) ==
    LET as_is == IF IsList(raw) THEN Return(raw) ELSE Return(EmptyList) IN
    IF IsList(raw) /\ Len(raw.v) >= 1 THEN
        LET first == raw.v[1] IN
        IF IsDict(first) /\ Has(first, "text") THEN
            LET text_content == Item(first, "text") IN
            IF IsStr(text_content) THEN
                LET parsed == json_loads(text_content.s) IN
                IF parsed.ok THEN
                    IF IsList(parsed.val) THEN Return(parsed.val) ELSE as_is
                ELSE
                    LET json_part == _extract_json_from_text(text_content.s) IN
                    IF IsNone(json_part) THEN as_is
                    ELSE LET parsed2 == json_loads(json_part.s) IN
                         IF parsed2.ok THEN
                             IF IsList(parsed2.val) THEN Return(parsed2.val) ELSE as_is
                         ELSE as_is
            ELSE as_is
        ELSE as_is
    ELSE as_is

\* normalize_blocks(raw_blocks)
normalize_blocks(raw) ==
    LET as_is == IF IsList(raw) THEN Return(raw) ELSE Return(EmptyList) IN
    IF IsList(raw) /\ Len(raw.v) = 1 THEN
        LET first == raw.v[1] IN
        IF IsDict(first) /\ Has(first, "text") THEN
            LET text_content == Item(first, "text") IN
            IF IsStr(text_content) THEN
                LET parsed == json_loads(text_content.s) IN
                IF parsed.ok THEN
                    IF IsList(parsed.val) THEN Return(parsed.val) ELSE as_is
                ELSE \* except json.JSONDecodeError
                    LET json_part == _extract_json_from_text(text_content.s) IN
                    IF IsNone(json_part) THEN as_is
                    ELSE LET parsed2 == json_loads(json_part.s) IN
                         IF parsed2.ok THEN
                             IF IsList(parsed2.val) THEN Return(parsed2.val) ELSE as_is
                         ELSE \* except json.JSONDecodeError
                             as_is
            ELSE as_is
        ELSE as_is
    ELSE as_is

\* detect_response_format(raw_blocks)
detect_response_format(raw) ==
    IF ~IsList(raw) THEN "UNKNOWN_NOT_LIST"
    ELSE IF Len(raw.v) = 0 THEN "EMPTY_LIST"
    ELSE IF IsDict(raw.v[1]) /\ (Has(raw.v[1], "block_id") \/ Has(raw.v[1], "block_type"))
        THEN "NORMAL_BLOCK_ARRAY"
    ELSE IF Len(raw.v) = 1 THEN
        LET first == raw.v[1] IN
        IF IsDict(first) THEN
            IF Has(first, "text") /\ IsStr(Item(first, "text")) THEN
                IF StartsWith(Item(first, "text").s, "[") THEN "WRAPPED_JSON_IN_TEXT"
                ELSE "WRAPPED_TEXT_WITH_HINTS"
            ELSE "SINGLE_DICT_WITHOUT_TEXT"
        ELSE "SINGLE_NON_DICT"
    ELSE "MULTI_ITEM_UNKNOWN_FORMAT"

(***************************************************************************)
(* Python operations that can raise                                        *)
(***************************************************************************)
Exc(e) == [k |-> "exc", e |-> e]
IsExc(x) == x.k = "exc"

\* the first raised exception among the values, None when there is none
FirstExc(values) ==
    IF \E i \in DOMAIN values : IsExc(values[i])
    THEN values[CHOOSE i \in DOMAIN values :
                    IsExc(values[i]) /\ \A j \in DOMAIN values : IsExc(values[j]) => i <= j]
    ELSE None

\* x.get(name, default): only a dict has get
PyGet(x, name, default) ==
    IF IsExc(x) THEN x
    ELSE IF IsDict(x) THEN Get(x, name, default)
    ELSE Exc("AttributeError")

\* x can be a set element or a dict key
Hashable(x) == x.k \notin {"list", "dict"}

\* the elements `for e in x` visits, as a list
PyIter(x) ==
    CASE IsExc(x) -> x
      [] IsList(x) -> x
      [] IsStr(x) -> List([i \in DOMAIN x.s |-> Str(<<x.s[i]>>)])
      [] IsDict(x) -> LET keys == SetToSeq(DOMAIN x.d) IN
                      List([i \in DOMAIN keys |-> Str(keys[i])])
      [] OTHER -> Exc("TypeError")

\* len(x)
PyLen(x) ==
    CASE IsExc(x) -> x
      [] IsList(x) -> Int_(Len(x.v))
      [] IsStr(x) -> Int_(Len(x.s))
      [] IsDict(x) -> Int_(Cardinality(DOMAIN x.d))
      [] OTHER -> Exc("TypeError")

RECURSIVE PyRepr(_)
\* repr(x), for strings without quotes or backslashes
PyRepr(x) ==
    CASE x.k = "none" -> <<"None">>
      [] x.k = "bool" -> IF x.b THEN <<"True">> ELSE <<"False">>
      [] x.k = "int" -> IF x.n < 0 THEN <<"-">> \o encode_int(-x.n) ELSE encode_int(x.n)
      [] x.k = "str" -> <<"'">> \o x.s \o <<"'">>
      [] x.k = "list" ->
            <<"[">> \o JoinSeqs([i \in DOMAIN x.v |-> PyRepr(x.v[i])], <<",", " ">>) \o <<"]">>
      [] x.k = "dict" ->
            LET keys == SetToSeq(DOMAIN x.d) IN
            <<"{">> \o JoinSeqs([i \in DOMAIN keys |->
                            PyRepr(Str(keys[i])) \o <<":", " ">> \o PyRepr(x.d[keys[i]])],
                         <<",", " ">>) \o <<"}">>

\* the characters of x inside an f-string: str(x)
Fmt(x) == IF IsStr(x) THEN x.s ELSE PyRepr(x)

\* sep.join(parts): every part must be a str
PyJoin(sep, parts) ==
    IF \E i \in DOMAIN parts : ~IsStr(parts[i]) THEN Exc("TypeError")
    ELSE Str(JoinSeqs([i \in DOMAIN parts |-> parts[i].s], sep))

(***************************************************************************)
(* Inline style extractor                                                  *)
(***************************************************************************)
\* the backquote character, which a TLA+ string cannot hold
Backtick == "<backquote>"

\* the str that is one symbol
Sym(name) == Str(<<name>>)

\* data.get("elements") or data.get("textElements", [])
ElementsOf(data) ==
    LET elements == Get(data, "elements", None) IN
    IF Truthy(elements) THEN elements ELSE Get(data, "textElements", EmptyList)

\* the style wraps of lines 455-475 around content
ApplyStyles(content, style) ==
    LET wrap(on, c, before, after) == IF on THEN Str(before \o Fmt(c) \o after) ELSE c
        c1 == wrap(Truthy(Get(style, "strikethrough", None)), content, <<"~", "~">>, <<"~", "~">>)
        c2 == wrap(Truthy(Get(style, "underline", None)), c1, <<"<u>">>, <<"</u>">>)
        c3 == wrap(Truthy(Get(style, "italic", None)), c2, <<"*">>, <<"*">>)
        c4 == wrap(Truthy(Get(style, "bold", None)), c3, <<"*", "*">>, <<"*", "*">>)
        c5 == wrap(Truthy(Get(style, "code", None)), c4, <<Backtick>>, <<Backtick>>)
        color == Get(style, "color", None)
        bg_color == Get(style, "background", None)
        color_style == IF Truthy(color) THEN <<"color:">> \o Fmt(color) ELSE <<>>
        bg_style == IF Truthy(bg_color) THEN <<"background-color:">> \o Fmt(bg_color) ELSE <<>>
        styles == JoinSeqs(SelectSeq(<<color_style, bg_style>>, LAMBDA p : p # <<>>), <<";">>)
    IN IF Truthy(color) \/ Truthy(bg_color)
       THEN Str(<<"<span style=", Quote>> \o styles \o <<Quote, ">">> \o Fmt(c5) \o <<"</span>">>)
       ELSE c5

\* the styles applied first and the link around them
StyledRun_link_outermost(text_run, content) ==
    LET link == Get(text_run, "link", None)
        style == Get(text_run, "text_element_style", EmptyDict)
    IN IF ~IsDict(style) THEN Exc("AttributeError")
       ELSE Let(ApplyStyles(content, style), LAMBDA styled :
            IF Truthy(link)
            THEN Str(<<"[">> \o Fmt(styled) \o <<"]", "(">> \o Fmt(link) \o <<")">>)
            ELSE styled)

\* lines 445-477: the link and the styles of a text_run
StyledRun(text_run, content) ==
    LET link == Get(text_run, "link", None)
        linked == IF Truthy(link)
                  THEN Str(<<"[">> \o Fmt(content) \o <<"]", "(">> \o Fmt(link) \o <<")">>)
                  ELSE content
        style == Get(text_run, "text_element_style", EmptyDict)
    IN IF ~IsDict(style) THEN Exc("AttributeError") ELSE ApplyStyles(linked, style)

\* the part one element appends to result_parts (lines 424-477)
StyledElement(elem) ==
    LET text_run == PyGet(elem, "text_run", EmptyDict)
        content == PyGet(text_run, "content", EmptyStr)
        inline_component == Get(elem, "inline_component", EmptyDict)
    IN IF IsExc(content) THEN content
       ELSE IF ~Truthy(content) /\ Truthy(inline_component) THEN
            IF ~IsDict(inline_component) THEN Exc("AttributeError")
            ELSE LET component_type == Get(inline_component, "type", EmptyStr)
                     url == Get(inline_component, "raw_url", EmptyStr)
                     title == Get(inline_component, "title", content)
                 IN IF component_type = Sym("mention_doc") /\ Truthy(url)
                    THEN Str(<<"[">> \o Fmt(title) \o <<"]", "(">> \o Fmt(url) \o <<")">>)
                    ELSE IF component_type = Sym("user")
                    THEN Str(<<Backtick>> \o Fmt(Get(text_run, "content", Sym("@user"))) \o <<Backtick>>)
                    ELSE StyledRun(text_run, content)
       ELSE StyledRun(text_run, content)

\* _extract_text_with_styles(text_data), text_data a dict
_extract_text_with_styles(text_data) ==
    Let(ElementsOf(text_data), LAMBDA elements :
    IF ~Truthy(elements) THEN EmptyStr
    ELSE Let(PyIter(elements), LAMBDA elems :
         IF IsExc(elems) THEN elems
         ELSE Let([i \in DOMAIN elems.v |-> StyledElement(elems.v[i])], LAMBDA result_parts :
              Let(FirstExc(result_parts), LAMBDA failed :
              IF IsExc(failed) THEN failed ELSE PyJoin(<<>>, result_parts)))))

(***************************************************************************)
(* Tree walker                                                             *)
(***************************************************************************)
BLOCK_TYPES ==
    <<"page", "text", "heading1", "heading2", "heading3", "heading4", "heading5",
      "heading6", "heading7", "heading8", "heading9", "bullet", "ordered", "code",
      "quote", "todo", "divider", "image", "table", "callout", "file", "video",
      "bookmark", "view", "bitable", "mindnote", "docx", "sheet", "folder", "wiki",
      "table", "table_cell", "calendar", "group", "chart", "poll", "form", "flow",
      "multi_person", "bullet_sub", "ordered_sub", "todo_sub", "whiteboard", "chat",
      "link_card", "audio">>

HeadingFields ==
    <<"heading1", "heading2", "heading3", "heading4", "heading5", "heading6",
      "heading7", "heading8", "heading9">>

\* BLOCK_TYPES.get(block_type, f"unknown_{block_type}")
BlockTypeName(block_type) ==
    IF ~Hashable(block_type) THEN Exc("TypeError")
    ELSE IF IsInt(block_type) /\ IntVal(block_type) \in DOMAIN BLOCK_TYPES
        THEN Sym(BLOCK_TYPES[IntVal(block_type)])
    ELSE Str(<<"unknown_">> \o Fmt(block_type))

\* what a call that yields or collects gives back
Outcome(value, e) == [value |-> value, exc |-> e]

RECURSIVE add_descendants(_, _, _), add_children(_, _, _, _, _)
\* add_descendants(block_dict): the ids it adds to skip_block_ids.  A chain
\* of calls longer than the block list has visited some block twice and
\* never ends: Python stops it with a RecursionError.
add_descendants(blocks, block_dict, depth) ==
    IF depth > Len(blocks) THEN Outcome({}, "RecursionError")
    ELSE LET children == PyIter(Get(block_dict, "children", EmptyList)) IN
         IF IsExc(children) THEN Outcome({}, children.e)
         ELSE add_children(blocks, children.v, 1, {}, depth)

\* the loop over children of add_descendants from entry i on
add_children(blocks, children, i, acc, depth) ==
    IF i > Len(children) THEN Outcome(acc, "none")
    ELSE IF ~IsStr(children[i]) THEN add_children(blocks, children, i + 1, acc, depth)
    ELSE LET child_id == children[i]
             found == {j \in DOMAIN blocks :
                            IsDict(blocks[j]) /\ Get(blocks[j], "block_id", None) = child_id}
         IN IF found = {} THEN add_children(blocks, children, i + 1, acc \cup {child_id}, depth)
            ELSE Let(add_descendants(blocks, blocks[Min(found)], depth + 1), LAMBDA sub :
                 IF sub.exc # "none" THEN sub
                 ELSE add_children(blocks, children, i + 1,
                                   acc \cup {child_id} \cup sub.value, depth))

\* the ids of the table cells alone, without their descendants
build_skip_block_ids_cells_only(blocks, i, acc) ==
    Outcome({Get(blocks[j], "block_id", EmptyStr) :
                j \in {n \in DOMAIN blocks :
                        IsDict(blocks[n]) /\ EqInt(Get(blocks[n], "block_type", None), 32)}},
            "none")

RECURSIVE build_skip_block_ids(_, _, _)
\* lines 527-545: the loop over normalized_blocks from entry i on
build_skip_block_ids(blocks, i, acc) ==
    IF i > Len(blocks) THEN Outcome(acc, "none")
    ELSE LET b == blocks[i] IN
         IF ~(IsDict(b) /\ EqInt(Get(b, "block_type", None), 32))
         THEN build_skip_block_ids(blocks, i + 1, acc)
         ELSE IF ~Hashable(Get(b, "block_id", EmptyStr)) THEN Outcome(acc, "TypeError")
         ELSE Let(add_descendants(blocks, b, 1), LAMBDA sub :
              IF sub.exc # "none" THEN sub
              ELSE build_skip_block_ids(blocks, i + 1,
                        acc \cup {Get(b, "block_id", EmptyStr)} \cup sub.value))

\* one element's contribution to plain_parts: its content, Skipped, or an exception
Skipped == [k |-> "skipped"]
\* the content of an element whether struck through or not
PlainElement_keeping_struck(elem) ==
    LET text_run == PyGet(elem, "text_run", EmptyDict)
        content == PyGet(text_run, "content", EmptyStr)
    IN content

PlainElement(elem) ==
    LET text_run == PyGet(elem, "text_run", EmptyDict)
        content == PyGet(text_run, "content", EmptyStr)
        style == PyGet(text_run, "text_element_style", EmptyDict)
        strikethrough == PyGet(style, "strikethrough", None)
    IN IF IsExc(strikethrough) THEN strikethrough
       ELSE IF Truthy(strikethrough) THEN Skipped ELSE content

\* extract_from_data(data, for_inline=True): plain and styled, each a str or
\* the exception that ended the call
extract_from_data(data) ==
    LET nothing == [plain |-> EmptyStr, styled |-> EmptyStr]
        failed(e) == [plain |-> e, styled |-> e]
    IN IF ~Truthy(data) \/ ~IsDict(data) THEN nothing
       ELSE IF ~Truthy(ElementsOf(data)) THEN nothing
       ELSE Let(PyIter(ElementsOf(data)), LAMBDA elems :
            IF IsExc(elems) THEN failed(elems)
            ELSE Let([i \in DOMAIN elems.v |-> PlainElement(elems.v[i])], LAMBDA parts :
                 Let(FirstExc(parts), LAMBDA first_exc :
                 Let(IF IsExc(first_exc) THEN first_exc
                     ELSE PyJoin(<<>>, SelectSeq(parts, LAMBDA q : q # Skipped)), LAMBDA plain :
                 IF IsExc(plain) THEN failed(plain)
                 ELSE [plain |-> plain, styled |-> _extract_text_with_styles(data)]))))

\* the text and inline_text of a block after each field is looked at
Texts2(text, inline_text) == [text |-> text, inline_text |-> inline_text, exc |-> "none"]
TextsFailed(e) == [text |-> EmptyStr, inline_text |-> EmptyStr, exc |-> e.e]

\* lines 603-612: the `text` field
AfterTextField(block) ==
    IF Has(block, "text") /\ Truthy(Item(block, "text")) THEN
        LET text_data == Item(block, "text") IN
        IF IsStr(text_data) THEN Texts2(text_data, text_data)
        ELSE IF IsDict(text_data) THEN
            Let(extract_from_data(text_data), LAMBDA e :
            IF IsExc(e.plain) THEN TextsFailed(e.plain)
            ELSE IF IsExc(e.styled) THEN TextsFailed(e.styled)
            ELSE Texts2(e.plain, IF Truthy(e.styled) THEN e.styled ELSE e.plain))
        ELSE Texts2(EmptyStr, EmptyStr)
    ELSE Texts2(EmptyStr, EmptyStr)

\* lines 618-622 and 636-640: a heading or bullet field fills what is still empty
FillFrom(data, t) ==
    Let(extract_from_data(data), LAMBDA e :
    IF IsExc(e.plain) THEN TextsFailed(e.plain)
    ELSE IF IsExc(e.styled) THEN TextsFailed(e.styled)
    ELSE Texts2(IF Truthy(e.plain) /\ ~Truthy(t.text) THEN e.plain ELSE t.text,
                IF Truthy(e.styled) /\ ~Truthy(t.inline_text) THEN e.styled ELSE t.inline_text))

\* lines 615-623: the first heading field that is a dict
AfterHeadingFields(block, t) ==
    LET present == {i \in DOMAIN HeadingFields :
                        Has(block, HeadingFields[i]) /\ IsDict(Item(block, HeadingFields[i]))}
    IN IF t.exc # "none" \/ present = {} THEN t
       ELSE FillFrom(Item(block, HeadingFields[Min(present)]), t)

\* lines 626-630: code.code
AfterCodeField(block, t) ==
    IF t.exc = "none" /\ Has(block, "code") /\ IsDict(Item(block, "code")) THEN
        LET code_text == Get(Item(block, "code"), "code", EmptyStr) IN
        IF Truthy(code_text) /\ ~Truthy(t.text) THEN Texts2(code_text, code_text) ELSE t
    ELSE t

\* lines 634-640: the bullet field
AfterBulletField(block, t) ==
    IF t.exc = "none" /\ Has(block, "bullet") /\ IsDict(Item(block, "bullet"))
    THEN FillFrom(Item(block, "bullet"), t)
    ELSE t

\* lines 642-644: checked, read only inside the bullet branch
CheckedOf(block, block_type) ==
    IF Has(block, "bullet") /\ IsDict(Item(block, "bullet")) /\ EqInt(block_type, 16)
    THEN PyGet(PyGet(block, "todo", EmptyDict), "done", Bool(FALSE))
    ELSE Bool(FALSE)

\* level with type 12 taken for a heading too
LevelOf_through_12(block_type) ==
    IF ~IsInt(block_type) THEN Exc("TypeError")
    ELSE IF 3 <= IntVal(block_type) /\ IntVal(block_type) <= 12
        THEN Int_(IntVal(block_type) - 2)
    ELSE None

\* lines 648-650: level
LevelOf(block_type) ==
    IF ~IsInt(block_type) THEN Exc("TypeError")
    ELSE IF 3 <= IntVal(block_type) /\ IntVal(block_type) <= 11
        THEN Int_(IntVal(block_type) - 2)
    ELSE None

\* lines 653-654: children_count
ChildrenCount(block) ==
    LET children == Get(block, "children", EmptyList) IN
    IF Truthy(children) THEN PyLen(children) ELSE Int_(0)

\* the body of the loop of traverse for one dict (lines 555-671): Skipped,
\* the BlockInfo it yields, or the exception it raises
VisitBlock(ctx, block) ==
    LET block_id == Get(block, "block_id", EmptyStr)
        block_type == Get(block, "block_type", Int_(0))
        block_type_name == BlockTypeName(block_type)
        checked == CheckedOf(block, block_type)
        level == LevelOf(block_type)
        children_count == ChildrenCount(block)
    IN IF IsExc(block_type_name) THEN block_type_name
       ELSE IF ctx.skip_table_cells /\ EqInt(block_type, 32) THEN Skipped
       ELSE IF ~Hashable(block_id) THEN Exc("TypeError")
       ELSE IF block_id \in ctx.skip_block_ids THEN Skipped
       ELSE Let(AfterBulletField(block,
                    AfterCodeField(block, AfterHeadingFields(block, AfterTextField(block)))),
            LAMBDA t :
            IF t.exc # "none" THEN Exc(t.exc)
            ELSE IF IsExc(checked) THEN checked
            ELSE IF IsExc(level) THEN level
            ELSE IF IsExc(children_count) THEN children_count
            ELSE [k |-> "BlockInfo",
                  block_id |-> block_id,
                  block_type |-> block_type,
                  block_type_name |-> block_type_name,
                  text |-> t.text,
                  level |-> level,
                  children_count |-> children_count,
                  inline_text |-> IF Truthy(t.inline_text) THEN t.inline_text ELSE t.text,
                  checked |-> checked])

RECURSIVE traverse(_, _, _), traverse_from(_, _, _, _)
\* traverse with the cut one level early
traverse_cut_early(ctx, block_list, depth) ==
    IF depth >= ctx.max_depth THEN Outcome(<<>>, "none")
    ELSE traverse_from(ctx, PyIter(block_list).v, 1, depth)

\* traverse(block_list, depth): the records it yields, and the exception that
\* ended it if one did
traverse(ctx, block_list, depth) ==
    IF depth > ctx.max_depth THEN Outcome(<<>>, "none")
    ELSE traverse_from(ctx, PyIter(block_list).v, 1, depth)

\* the loop of traverse from entry i on
traverse_from(ctx, entries, i, depth) ==
    IF i > Len(entries) THEN Outcome(<<>>, "none")
    ELSE IF ~IsDict(entries[i]) THEN traverse_from(ctx, entries, i + 1, depth)
    ELSE LET block == entries[i]
             children == Get(block, "children", EmptyList)
             should_recurse ==
                ~(ctx.skip_table_cells /\ EqInt(Get(block, "block_type", Int_(0)), 31))
         IN Let(VisitBlock(ctx, block), LAMBDA info :
            Let(traverse_from(ctx, entries, i + 1, depth), LAMBDA rest :
            IF info = Skipped THEN rest
            ELSE IF IsExc(info) THEN Outcome(<<>>, info.e)
            ELSE Let(IF should_recurse /\ Truthy(children)
                     THEN traverse(ctx, children, depth + 1)
                     ELSE Outcome(<<>>, "none"), LAMBDA below :
                 IF below.exc # "none" THEN Outcome(<<info>> \o below.value, below.exc)
                 ELSE Outcome(<<info>> \o below.value \o rest.value, rest.exc))))

\* iter_blocks(blocks, max_depth, skip_table_cells)
iter_blocks(blocks, max_depth, skip_table_cells) ==
    Let(normalize_blocks(blocks).ret.v, LAMBDA normalized_blocks :
    Let(IF skip_table_cells THEN build_skip_block_ids(normalized_blocks, 1, {})
        ELSE Outcome({}, "none"), LAMBDA skip :
    IF skip.exc # "none" THEN Outcome(<<>>, skip.exc)
    ELSE traverse([max_depth |-> max_depth,
                   skip_table_cells |-> skip_table_cells,
                   skip_block_ids |-> skip.value],
                  List(normalized_blocks), 0)))

(***************************************************************************)
(* List merger                                                             *)
(***************************************************************************)
\* a render item: the tuple (item_type, content, extra)
RenderItem(tag, content, extra) == [tag |-> tag, content |-> content, extra |-> extra]

ListTags == {"bullet", "ordered", "todo"}

RECURSIVE RunEnd(_, _, _)
\* lines 841-855: the index j after the run of list_type that starts before j
RunEnd(items, j, list_type) ==
    IF j <= Len(items) /\ items[j].tag = list_type THEN RunEnd(items, j + 1, list_type) ELSE j

\* the run merged into its first item
MergedRun_first_only(items, i, j) == <<items[i]>>

\* the run with the extras the items came with
MergedRun_keeping_extras(items, i, j) == SubSeq(items, i, j - 1)

\* lines 858-866: the items of the run items[i..j-1] as the merger emits them
MergedRun(items, i, j) ==
    [n \in 1..(j - i) |->
        LET item == items[i + n - 1] IN
        CASE item.tag = "bullet" -> RenderItem("bullet", item.content, None)
          [] item.tag = "ordered" -> RenderItem("ordered", item.content, Int_(n))
          [] item.tag = "todo" -> RenderItem("todo", item.content, item.extra)]

RECURSIVE merge_from(_, _)
\* the loop with a blank after every run that does not end the sequence
merge_from_blank_after_every_run(items, i) ==
    IF i > Len(items) THEN <<>>
    ELSE IF items[i].tag \in ListTags THEN
        LET j == RunEnd(items, i + 1, items[i].tag)
            blank == IF j <= Len(items) THEN <<RenderItem("blank", EmptyStr, None)>> ELSE <<>>
        IN MergedRun(items, i, j) \o blank \o merge_from(items, j)
    ELSE <<items[i]>> \o merge_from(items, i + 1)

\* the while loop of _merge_lists from index i on
merge_from(items, i) ==
    IF i > Len(items) THEN <<>>
    ELSE IF items[i].tag \in ListTags THEN
        LET j == RunEnd(items, i + 1, items[i].tag)
            blank == IF j <= Len(items) /\ items[j].tag \notin ListTags
                     THEN <<RenderItem("blank", EmptyStr, None)>>
                     ELSE <<>>
        IN MergedRun(items, i, j) \o blank \o merge_from(items, j)
    ELSE <<items[i]>> \o merge_from(items, i + 1)

\* the merger keeping the list items alone
_merge_lists_runs_only(items) ==
    SelectSeq(merge_from(items, 1), LAMBDA item : item.tag \in ListTags)

\* _merge_lists(items)
_merge_lists(items) == merge_from(items, 1)

(***************************************************************************)
(* Table renderer                                                          *)
(***************************************************************************)
RECURSIVE build_block_map(_, _, _)
\* {b.get("block_id"): b for b in normalized_blocks if isinstance(b, dict)}:
\* a function from ids to blocks, or an exception
build_block_map(blocks, i, acc) ==
    IF i > Len(blocks) THEN Outcome(acc, "none")
    ELSE IF ~IsDict(blocks[i]) THEN build_block_map(blocks, i + 1, acc)
    ELSE LET block_id == Get(blocks[i], "block_id", None) IN
         IF ~Hashable(block_id) THEN Outcome(acc, "TypeError")
         ELSE build_block_map(blocks, i + 1, (block_id :> blocks[i]) @@ acc)

\* block_map.get(key, {})
MapGet(block_map, key) == IF key \in DOMAIN block_map THEN block_map[key] ELSE EmptyDict

RECURSIVE StripLeft(_)
StripLeft(s) == IF s # <<>> /\ s[1] \in Whitespace THEN StripLeft(Tail(s)) ELSE s

RECURSIVE StripRight(_)
StripRight(s) ==
    IF s # <<>> /\ s[Len(s)] \in Whitespace THEN StripRight(SubSeq(s, 1, Len(s) - 1)) ELSE s

\* s.strip()
Strip(s) == StripRight(StripLeft(s))

\* the text left as it is
EscapePipes_nothing(s) == s

RECURSIVE EscapePipes(_)
\* s.replace("|", "\\|")
EscapePipes(s) ==
    IF s = <<>> THEN <<>>
    ELSE (IF s[1] = "|" THEN <<Backslash, "|">> ELSE <<s[1]>>) \o EscapePipes(Tail(s))

\* the test with only the rows looked at
EmptyTable_rows_only(row_size, column_size) == EqInt(row_size, 0)

\* lines 981 and 903: row_size == 0 or column_size == 0
EmptyTable(row_size, column_size) == EqInt(row_size, 0) \/ EqInt(column_size, 0)

TableTextFields == <<"text">> \o HeadingFields \o <<"bullet">>

\* children[0]
FirstOf(children) ==
    CASE IsList(children) -> children.v[1]
      [] IsStr(children) -> Str(<<children.s[1]>>)
      [] IsDict(children) -> Exc("KeyError")
      [] OTHER -> Exc("TypeError")

RECURSIVE StyledFieldText(_, _)
\* lines 999-1006: the styled text of the first field, from field i on, that has one
StyledFieldText(child_block, i) ==
    IF i > Len(TableTextFields) THEN EmptyStr
    ELSE IF Has(child_block, TableTextFields[i]) /\ IsDict(Item(child_block, TableTextFields[i]))
    THEN Let(_extract_text_with_styles(Item(child_block, TableTextFields[i])), LAMBDA styled :
         IF IsExc(styled) \/ Truthy(styled) THEN styled
         ELSE StyledFieldText(child_block, i + 1))
    ELSE StyledFieldText(child_block, i + 1)

\* lines 990-1007: the text one cell id appends to cell_contents
CellContent(cell_id, block_map) ==
    IF ~Hashable(cell_id) THEN Exc("TypeError")
    ELSE IF cell_id \notin DOMAIN block_map THEN EmptyStr
    ELSE LET children == Get(block_map[cell_id], "children", EmptyList) IN
         IF ~Truthy(children) THEN EmptyStr
         ELSE LET first == FirstOf(children) IN
              IF IsExc(first) THEN first
              ELSE IF ~Hashable(first) THEN Exc("TypeError")
              ELSE IF first \notin DOMAIN block_map THEN EmptyStr
              ELSE Let(StyledFieldText(block_map[first], 1), LAMBDA cell_text :
                   IF IsExc(cell_text) THEN cell_text ELSE Str(Strip(cell_text.s)))

\* the lines of the table with the cells taken column by column
TableLines_column_major(row_size, column_size, cell_contents) ==
    LET cell(row, col) ==
            LET idx == col * row_size + row IN
            IF idx < Len(cell_contents) THEN EscapePipes(cell_contents[idx + 1].s) ELSE <<>>
        row_line(row) ==
            <<"|", " ">> \o JoinSeqs([c \in 1..column_size |-> cell(row, c - 1)],
                                       <<" ", "|", " ">>) \o <<" ", "|">>
        separator ==
            <<"|", " ">> \o JoinSeqs([c \in 1..column_size |-> <<"-", "-", "-">>],
                                       <<" ", "|", " ">>) \o <<" ", "|">>
        lines_of(row) == IF row = 0 THEN <<row_line(row), separator>> ELSE <<row_line(row)>>
        all[row \in 0..row_size] ==
            IF row = row_size THEN <<>> ELSE lines_of(row) \o all[row + 1]
    IN IF row_size <= 0 THEN <<>> ELSE all[0]

\* lines 1013-1027: the lines of the table
TableLines(row_size, column_size, cell_contents) ==
    LET cell(row, col) ==
            LET idx == row * column_size + col IN
            IF idx < Len(cell_contents) THEN EscapePipes(cell_contents[idx + 1].s) ELSE <<>>
        row_line(row) ==
            <<"|", " ">> \o JoinSeqs([c \in 1..column_size |-> cell(row, c - 1)],
                                       <<" ", "|", " ">>) \o <<" ", "|">>
        separator ==
            <<"|", " ">> \o JoinSeqs([c \in 1..column_size |-> <<"-", "-", "-">>],
                                       <<" ", "|", " ">>) \o <<" ", "|">>
        lines_of(row) == IF row = 0 THEN <<row_line(row), separator>> ELSE <<row_line(row)>>
        all[row \in 0..row_size] ==
            IF row = row_size THEN <<>> ELSE lines_of(row) \o all[row + 1]
    IN IF row_size <= 0 THEN <<>> ELSE all[0]

\* _extract_table_markdown_with_styles(table_block_id, blocks, block_map)
_extract_table_markdown_with_styles(table_block_id, block_map) ==
    LET table_block == MapGet(block_map, table_block_id)
        table_data == Get(table_block, "table", EmptyDict)
        property_data == PyGet(table_data, "property", EmptyDict)
        row_size == PyGet(property_data, "row_size", Int_(0))
        column_size == PyGet(property_data, "column_size", Int_(0))
        cell_ids == PyIter(Get(table_data, "cells", EmptyList))
    IN IF ~Truthy(table_data) THEN Sym("[Table: unable to extract content]")
       ELSE IF IsExc(column_size) THEN column_size
       ELSE IF EmptyTable(row_size, column_size) THEN Sym("[Table: empty table]")
       ELSE IF IsExc(cell_ids) THEN cell_ids
       ELSE Let([i \in DOMAIN cell_ids.v |-> CellContent(cell_ids.v[i], block_map)],
            LAMBDA cell_contents :
            Let(FirstExc(cell_contents), LAMBDA failed :
            IF IsExc(failed) THEN failed
            ELSE IF ~IsInt(row_size) THEN Exc("TypeError")
            ELSE IF IntVal(row_size) > 0 /\ ~IsInt(column_size) THEN Exc("TypeError")
            ELSE Str(JoinSeqs(TableLines(IntVal(row_size), IntVal(column_size), cell_contents),
                              <<"\n">>))))

\* lines 925-931: the plain text of one field of the cell's child block
PlainFieldOf(field_data) ==
    Let(PyIter(Get(field_data, "elements", EmptyList)), LAMBDA elems :
    IF IsExc(elems) THEN elems
    ELSE Let([i \in DOMAIN elems.v |-> PlainElement(elems.v[i])], LAMBDA parts :
         Let(FirstExc(parts), LAMBDA failed :
         IF IsExc(failed) THEN failed
         ELSE PyJoin(<<>>, SelectSeq(parts, LAMBDA q : q # Skipped)))))

RECURSIVE PlainFieldText(_, _)
\* lines 921-933: the plain text of the first field, from field i on, that has one
PlainFieldText(child_block, i) ==
    IF i > Len(TableTextFields) THEN EmptyStr
    ELSE IF Has(child_block, TableTextFields[i]) /\ IsDict(Item(child_block, TableTextFields[i]))
    THEN Let(PlainFieldOf(Item(child_block, TableTextFields[i])), LAMBDA cell_text :
         IF IsExc(cell_text) \/ Truthy(cell_text) THEN cell_text
         ELSE PlainFieldText(child_block, i + 1))
    ELSE PlainFieldText(child_block, i + 1)

\* lines 911-934: the text one cell id appends to cell_contents
PlainCellContent(cell_id, block_map) ==
    IF ~Hashable(cell_id) THEN Exc("TypeError")
    ELSE IF cell_id \notin DOMAIN block_map THEN EmptyStr
    ELSE LET children == Get(block_map[cell_id], "children", EmptyList) IN
         IF ~Truthy(children) THEN EmptyStr
         ELSE LET first == FirstOf(children) IN
              IF IsExc(first) THEN first
              ELSE IF ~Hashable(first) THEN Exc("TypeError")
              ELSE IF first \notin DOMAIN block_map THEN EmptyStr
              ELSE Let(PlainFieldText(block_map[first], 1), LAMBDA cell_text :
                   IF IsExc(cell_text) THEN cell_text ELSE Str(Strip(cell_text.s)))

\* _extract_table_markdown(table_block_id, blocks, block_map)
_extract_table_markdown(table_block_id, block_map) ==
    LET table_block == MapGet(block_map, table_block_id)
        table_data == Get(table_block, "table", EmptyDict)
        property_data == PyGet(table_data, "property", EmptyDict)
        row_size == PyGet(property_data, "row_size", Int_(0))
        column_size == PyGet(property_data, "column_size", Int_(0))
        cell_ids == PyIter(Get(table_data, "cells", EmptyList))
    IN IF ~Truthy(table_data) THEN Sym("[Table: unable to extract content]")
       ELSE IF IsExc(column_size) THEN column_size
       ELSE IF EmptyTable(row_size, column_size) THEN Sym("[Table: empty table]")
       ELSE IF IsExc(cell_ids) THEN cell_ids
       ELSE Let([i \in DOMAIN cell_ids.v |-> PlainCellContent(cell_ids.v[i], block_map)],
            LAMBDA cell_contents :
            Let(FirstExc(cell_contents), LAMBDA failed :
            IF IsExc(failed) THEN failed
            ELSE IF ~IsInt(row_size) THEN Exc("TypeError")
            ELSE IF IntVal(row_size) > 0 /\ ~IsInt(column_size) THEN Exc("TypeError")
            ELSE Str(JoinSeqs(TableLines(IntVal(row_size), IntVal(column_size), cell_contents),
                              <<"\n">>))))

(***************************************************************************)
(* Markdown emitter                                                        *)
(***************************************************************************)
\* the arguments of to_markdown other than blocks
DefaultMaxDepth == 100
MdOptions(extract_tables, extract_whiteboards, merge_lists) ==
    [max_depth |-> DefaultMaxDepth, extract_tables |-> extract_tables,
     extract_whiteboards |-> extract_whiteboards, merge_lists |-> merge_lists]

\* lines 754-763: the content of a whiteboard item
WhiteboardContent(block_id, block_map, extract_whiteboards) ==
    IF ~extract_whiteboards THEN Sym("[Whiteboard/huaban]") \* the literal of line 763
    ELSE LET board_token ==
                PyGet(PyGet(MapGet(block_map, block_id), "board", EmptyDict), "token", EmptyStr)
         IN IF IsExc(board_token) THEN board_token
            ELSE IF Truthy(board_token)
            THEN Str(<<"[Whiteboard: ">> \o Fmt(board_token) \o <<"]">>)
            ELSE Sym("[Whiteboard]")

\* lines 704-763: the items one BlockInfo appends (none or one), or an exception
ItemsOfBlock(block, block_map, o) ==
    LET text == IF Truthy(block.inline_text) THEN block.inline_text ELSE block.text
        block_type == IntVal(block.block_type)
        one(tag, content, extra) == List(<<RenderItem(tag, content, extra)>>)
    IN CASE block_type = 1 -> one("skip", None, None)
         [] block_type = 2 -> IF Truthy(text) THEN one("paragraph", text, None) ELSE EmptyList
         [] 3 <= block_type /\ block_type <= 11 -> one("heading", text, block.level)
         [] block_type = 12 -> one("bullet", text, None)
         [] block_type = 13 -> one("ordered", text, None)
         [] block_type = 14 -> one("code", text, None)
         [] block_type = 15 -> one("quote", text, None)
         [] block_type = 16 -> one("todo", text, block.checked)
         [] block_type = 17 -> one("divider", None, None)
         [] block_type = 18 -> one("image", IF Truthy(text) THEN text ELSE EmptyStr, None)
         [] block_type = 19 -> one("callout", text, None)
         [] block_type = 31 ->
                IF o.extract_tables THEN
                    Let(_extract_table_markdown_with_styles(block.block_id, block_map),
                        LAMBDA table_md :
                        IF IsExc(table_md) THEN table_md ELSE one("table", table_md, None))
                ELSE one("table", Str(<<"[Table with ">> \o Fmt(block.children_count)
                                        \o <<" cells]">>), None)
         [] block_type = 43 ->
                Let(WhiteboardContent(block.block_id, block_map, o.extract_whiteboards),
                    LAMBDA content :
                    IF IsExc(content) THEN content ELSE one("whiteboard", content, None))
         [] OTHER -> EmptyList

RECURSIVE collect_items(_, _, _, _)
\* the first pass of to_markdown over the records from index i on
collect_items(records, i, block_map, o) ==
    IF i > Len(records) THEN Outcome(<<>>, "none")
    ELSE Let(ItemsOfBlock(records[i], block_map, o), LAMBDA items :
         IF IsExc(items) THEN Outcome(<<>>, items.e)
         ELSE Let(collect_items(records, i + 1, block_map, o), LAMBDA rest :
              Outcome(items.v \o rest.value, rest.exc)))

\* c * n that forgets the multiplication
Repeat_ignoring_count(c, n) == <<c>>

RECURSIVE Repeat(_, _)
\* c * n
Repeat(c, n) == IF n <= 0 THEN <<>> ELSE <<c>> \o Repeat(c, n - 1)

\* lines 771-816: the lines one item appends
LinesOfItem(item) ==
    LET content == item.content
        extra == item.extra
        blank_line == EmptyStr
    IN CASE item.tag = "skip" -> <<>>
         [] item.tag = "paragraph" -> IF Truthy(content) THEN <<content, blank_line>> ELSE <<>>
         [] item.tag = "heading" ->
                LET level == IF Truthy(extra) THEN IntVal(extra) ELSE 1 IN
                <<Str(Repeat("#", level) \o <<" ">> \o Fmt(content)), blank_line>>
         [] item.tag = "bullet" -> <<Str(<<"-", " ">> \o Fmt(content))>>
         [] item.tag = "ordered" -> <<Str(<<"1", ".", " ">> \o Fmt(content))>>
         [] item.tag = "todo" ->
                LET checked == IF ~IsNone(extra) THEN Truthy(extra) ELSE FALSE
                    checkbox == IF checked THEN <<"-", " ", "[", "x", "]">>
                                ELSE <<"-", " ", "[", " ", "]">>
                IN <<Str(checkbox \o <<" ">> \o Fmt(content))>>
         [] item.tag = "code" ->
                <<Str(<<Backtick, Backtick, Backtick>>), content,
                  Str(<<Backtick, Backtick, Backtick>>), blank_line>>
         [] item.tag = "quote" -> <<Str(<<">", " ">> \o Fmt(content)), blank_line>>
         [] item.tag = "divider" -> <<Str(<<"-", "-", "-">>), blank_line>>
         [] item.tag = "image" ->
                IF Truthy(content)
                THEN <<Str(<<"[Image: ">> \o Fmt(content) \o <<"]">>), blank_line>>
                ELSE <<Sym("[Image]"), blank_line>>
         [] item.tag = "callout" -> <<Str(<<">", " ">> \o Fmt(content)), blank_line>>
         [] item.tag = "table" -> <<content, blank_line>>
         [] item.tag = "whiteboard" -> <<content, blank_line>>
         [] OTHER -> <<>>

RECURSIVE render_lines(_)
\* the third pass of to_markdown: the lines of all items
render_lines(items) ==
    IF items = <<>> THEN <<>> ELSE LinesOfItem(items[1]) \o render_lines(Tail(items))

\* to_markdown(blocks, max_depth, extract_tables, extract_whiteboards, merge_lists)
to_markdown(blocks, o) ==
    Let(build_block_map(normalize_blocks(blocks).ret.v, 1, <<>>), LAMBDA block_map :
    IF block_map.exc # "none" THEN Raise(block_map.exc)
    ELSE Let(iter_blocks(blocks, o.max_depth, o.extract_tables), LAMBDA records :
         Let(collect_items(records.value, 1, block_map.value, o), LAMBDA collected :
         IF collected.exc # "none" THEN Raise(collected.exc)
         ELSE IF records.exc # "none" THEN Raise(records.exc)
         ELSE Let(IF o.merge_lists THEN _merge_lists(collected.value) ELSE collected.value,
              LAMBDA items :
              Let(PyJoin(<<"\n">>, render_lines(items)), LAMBDA markdown :
              IF IsExc(markdown) THEN Raise(markdown.e) ELSE Return(markdown))))))

(***************************************************************************)
(* Inputs of the envelope normalizer                                       *)
(***************************************************************************)
MaxTextLen == 6
MaxBlocks == 2

\* the characters that matter to the scanners: brackets, quote, backslash, digit, comma
TextAlphabet == {"[", "]", Quote, Backslash, "1", ","}

RECURSIVE SeqsUpTo(_, _)
\* all sequences over S of length at most n
SeqsUpTo(S, n) ==
    IF n = 0 THEN {<<>>}
    ELSE LET shorter == SeqsUpTo(S, n - 1) IN
         shorter \cup {Append(q, x) : q \in {r \in shorter : Len(r) = n - 1}, x \in S}

Texts == SeqsUpTo(TextAlphabet, MaxTextLen)

\* the example of the spec: a block array followed by a hint text
HintText ==
    json_dumps(List(<<MkDict(<< <<"block_id", Str(<<"a">>)>>, <<"block_type", Int_(2)>> >>)>>))
        \o <<"E", "X", "T", "R", "A">>

\* [{"text": t}]
Wrap(t) == List(<<MkDict(<< <<"text", Str(t)>> >>)>>)

RichText(content) ==
    MkDict(<< <<"elements", List(<<MkDict(<< <<"text_run",
                MkDict(<< <<"content", Str(content)>> >>)>> >>)>>)>> >>)

\* block dicts a JSON response can hold
PlainBlock == MkDict(<< <<"block_id", Str(<<"a">>)>>, <<"block_type", Int_(2)>> >>)
RichBlock ==
    MkDict(<< <<"block_id", Str(<<"b">>)>>, <<"block_type", Int_(2)>>,
              <<"text", RichText(<<"H", "i">>)>>, <<"children", EmptyList>> >>)
StringTextBlock ==
    MkDict(<< <<"block_id", Str(<<"c">>)>>, <<"block_type", Int_(2)>>,
              <<"text", Str(<<"[", "]">>)>> >>)
TrickyBlock ==
    MkDict(<< <<"block_id", Str(<<"]", Quote, Backslash>>)>>, <<"block_type", Int_(16)>>,
              <<"todo", MkDict(<< <<"done", Bool(TRUE)>>, <<"x", None>> >>)>>,
              <<"children", List(<<Str(<<"[">>)>>)>> >>)
BlockDicts == {PlainBlock, RichBlock, StringTextBlock, TrickyBlock}

\* what else a list can hold: an envelope element, a text that is no str, a stray id
ListElements ==
    BlockDicts \cup {MkDict(<< <<"text", Str(<<"[", "1", "]">>)>> >>),
                     MkDict(<< <<"text", Int_(1)>> >>),
                     Str(<<"a">>)}

NonLists == {None, Int_(1), Bool(TRUE), Str(<<"[", "]">>), EmptyDict, PlainBlock}

BlockSeqs == SeqsUpTo(BlockDicts, MaxBlocks)

\* <<envelope, blocks>>: the envelope that wraps the JSON encoding of the blocks
RoundTripPairs == {<<Wrap(json_dumps(List(bs))), List(bs)>> : bs \in BlockSeqs}

NormInputs ==
    NonLists
    \cup {List(q) : q \in SeqsUpTo(ListElements, MaxBlocks)}
    \cup {Wrap(t) : t \in Texts \cup {HintText}}
    \cup {p[1] : p \in RoundTripPairs}

\* raw_blocks is [{"text": <str>, ...}]
IsEnvelope(raw) ==
    /\ IsList(raw) /\ Len(raw.v) = 1
    /\ IsDict(raw.v[1]) /\ Has(raw.v[1], "text") /\ IsStr(Item(raw.v[1], "text"))

EnvelopeText(raw) == Item(raw.v[1], "text").s

(***************************************************************************)
(* The normalizer as a state machine: one call on one input                *)
(***************************************************************************)
InitNorm ==
    /\ pc = "start"
    /\ raw_blocks \in NormInputs
    /\ opts = MdOptions(TRUE, FALSE, TRUE)
    /\ ret = None
    /\ exc = "none"

CallNormalize ==
    /\ pc = "start"
    /\ LET r == normalize_blocks(raw_blocks) IN
        /\ ret' = r.ret
        /\ exc' = r.exc
    /\ pc' = "normalized"
    /\ UNCHANGED <<raw_blocks, opts>>

\* _extract_json_from_text on the text of an envelope
CallExtract ==
    /\ pc = "start"
    /\ IsEnvelope(raw_blocks)
    /\ ret' = _extract_json_from_text(EnvelopeText(raw_blocks))
    /\ exc' = "none"
    /\ pc' = "extracted"
    /\ UNCHANGED <<raw_blocks, opts>>

CallDetect ==
    /\ pc = "start"
    /\ ret' = Str(<<detect_response_format(raw_blocks)>>)
    /\ exc' = "none"
    /\ pc' = "detected"
    /\ UNCHANGED <<raw_blocks, opts>>

NextNorm == CallNormalize \/ CallExtract \/ CallDetect

SpecNorm == InitNorm /\ [][NextNorm]_vars

(***************************************************************************)
(* Claims about the envelope normalizer                                    *)
(***************************************************************************)

\* C1: normalize_blocks is total: it raises nothing and returns a list for
\* every input, and the empty list when the input is not a list.
C1_NormalizeTotal ==
    pc = "normalized" =>
        /\ exc = "none"
        /\ IsList(ret)
        /\ (~IsList(raw_blocks) => ret = EmptyList)

C1_Witness ==
    /\ pc = "normalized"
    /\ ~IsList(raw_blocks) /\ IsDict(raw_blocks) /\ Has(raw_blocks, "block_id")
    /\ ret = EmptyList

\* a list of block dicts: every element has a block_id and a block_type
IsBlockDict(x) == IsDict(x) /\ Has(x, "block_id") /\ Has(x, "block_type")
IsFlatBlockArray(raw) == IsList(raw) /\ \A i \in DOMAIN raw.v : IsBlockDict(raw.v[i])

\* C2: envelope idempotence: normalize_blocks returns every already-flat
\* block array unchanged, a one-block array whose block has a `text` field
\* included.
C2_FlatArrayUnchanged ==
    (pc = "normalized" /\ IsFlatBlockArray(raw_blocks)) => ret = raw_blocks

\* C3: envelope round trip: normalizing [{"text": json.dumps(blocks)}]
\* returns the blocks, in order.
C3_RoundTrip ==
    pc = "normalized" =>
        \A p \in RoundTripPairs : raw_blocks = p[1] => (ret = p[2] /\ exc = "none")

C3_Witness ==
    /\ pc = "normalized"
    /\ \E p \in RoundTripPairs :
        /\ raw_blocks = p[1]
        /\ Len(p[2].v) = 2 /\ p[2].v[1] = TrickyBlock /\ p[2].v[2] = StringTextBlock
        /\ ret = p[2]

\* the scanner state after each character of text: outside a string, inside
\* one, or inside one right after a backslash
StringState(text) ==
    LET st[i \in 0..Len(text)] ==
            IF i = 0 THEN "out"
            ELSE LET before == st[i - 1] IN
                 CASE before = "esc" -> "in"
                   [] before = "in" ->
                        (IF text[i] = Backslash THEN "esc"
                         ELSE IF text[i] = Quote THEN "out" ELSE "in")
                   [] before = "out" -> (IF text[i] = Quote THEN "in" ELSE "out")
    IN st

\* the positions of the character c read outside every string
Counted(text, c) ==
    LET st == StringState(text) IN
    {j \in 1..Len(text) : text[j] = c /\ st[j - 1] = "out"}

\* the positions of a `]` outside strings where the bracket count is back at zero
ClosingPositions(text) ==
    LET opening == Counted(text, "[")
        closing == Counted(text, "]")
    IN {i \in closing :
            Cardinality({j \in opening : j <= i}) = Cardinality({j \in closing : j <= i})}

\* C4: _extract_json_from_text returns the prefix ending at the first `]`
\* outside strings where the bracket count returns to zero, and None when
\* the text does not start with `[` or has no such position.
C4_ExtractPrefix ==
    pc = "extracted" =>
        LET text == EnvelopeText(raw_blocks) IN
        IF StartsWith(text, "[") /\ ClosingPositions(text) # {}
        THEN ret = Str(Prefix(text, Min(ClosingPositions(text))))
        ELSE ret = None

\* a `]` inside a string is passed over and the text after the end is dropped
C4_Witness ==
    /\ pc = "extracted"
    /\ IsStr(ret)
    /\ Len(ret.s) < Len(EnvelopeText(raw_blocks))
    /\ \E i \in 1..(Len(ret.s) - 1) :
        ret.s[i] = "]" /\ StringState(ret.s)[i] = "in"

\* every attempt of normalize_blocks on the text fails
AllAttemptsFail(text) ==
    /\ ~(json_loads(text).ok /\ IsList(json_loads(text).val))
    /\ LET json_part == _extract_json_from_text(text) IN
        \/ IsNone(json_part)
        \/ ~(json_loads(json_part.s).ok /\ IsList(json_loads(json_part.s).val))

\* C5: last-resort pass-through: a one-element list whose element has a
\* string `text` on which every attempt fails is returned unchanged, without
\* an error.
C5_LastResort ==
    (pc = "normalized" /\ IsEnvelope(raw_blocks) /\ AllAttemptsFail(EnvelopeText(raw_blocks)))
        => (ret = raw_blocks /\ exc = "none")

\* the extraction gave a text and that text did not parse
C5_Witness ==
    /\ pc = "normalized"
    /\ IsEnvelope(raw_blocks)
    /\ AllAttemptsFail(EnvelopeText(raw_blocks))
    /\ IsStr(_extract_json_from_text(EnvelopeText(raw_blocks)))
    /\ ret = raw_blocks

\* C6: pass-through of non-envelopes: a list whose length is not 1, or whose
\* single element is a dict without a `text` field, is returned unchanged.
C6_NonEnvelopeUnchanged ==
    (/\ pc = "normalized"
     /\ IsList(raw_blocks)
     /\ \/ Len(raw_blocks.v) # 1
        \/ (IsDict(raw_blocks.v[1]) /\ ~Has(raw_blocks.v[1], "text")))
        => (ret = raw_blocks /\ exc = "none")

\* a two-element list whose first element looks like an envelope
C6_Witness ==
    /\ pc = "normalized"
    /\ IsList(raw_blocks) /\ Len(raw_blocks.v) = 2
    /\ IsEnvelope(List(<<raw_blocks.v[1]>>))
    /\ json_loads(EnvelopeText(List(<<raw_blocks.v[1]>>))).ok
    /\ ret = raw_blocks

(***************************************************************************)
(* Inputs of the tree walker, the table renderer and the Markdown emitter  *)
(***************************************************************************)
MaxMdBlocks == 2

\* {"block_id": id, "block_type": block_type, ...fields}
Block(id, block_type, fields) ==
    MkDict(<< <<"block_id", Sym(id)>>, <<"block_type", Int_(block_type)>> >> \o fields)

NoChildren == <<"children", EmptyList>>

\* the two blocks of the end-to-end scenario of the spec
H1 == Block("h1", 3, << <<"heading1", RichText(<<"Title">>)>>, NoChildren >>)
P1 == Block("p1", 2, << <<"text", RichText(<<"Hello">>)>>, NoChildren >>)

H2 == Block("h2", 4, << <<"heading2", RichText(<<"Sub">>)>>, NoChildren >>)
\* a text block whose text is the empty string
EmptyP == Block("e", 2, << <<"text", RichText(<<>>)>>, NoChildren >>)
BulletX == Block("b", 12, << <<"bullet", RichText(<<"x">>)>>, NoChildren >>)
OrderedX == Block("o1", 13, << <<"text", RichText(<<"x">>)>>, NoChildren >>)
OrderedY == Block("o2", 13, << <<"text", RichText(<<"y">>)>>, NoChildren >>)
TodoT == Block("t", 16, << <<"text", RichText(<<"t">>)>>,
                           <<"todo", MkDict(<< <<"done", Bool(TRUE)>> >>)>>, NoChildren >>)
Divider == Block("d", 17, << NoChildren >>)
\* a rich text whose elements hold a str where a dict is expected
BadElements == Block("m", 2, << <<"text", MkDict(<< <<"elements", List(<<Sym("x")>>)>> >>)>> >>)

TableData(row_size, column_size, cells) ==
    MkDict(<< <<"property", MkDict(<< <<"row_size", Int_(row_size)>>,
                                      <<"column_size", Int_(column_size)>> >>)>>,
              <<"cells", List(cells)>> >>)
\* a one-cell table, its cell, and the cell's text block is P1
Table11 == Block("tb", 31, << <<"table", TableData(1, 1, <<Sym("c")>>)>>,
                              <<"children", List(<<Sym("c")>>)>> >>)
Cell == Block("c", 32, << <<"children", List(<<Sym("p1")>>)>> >>)
\* a table whose cell id is a list, not a string
BadCellId == Block("tx", 31, << <<"table", TableData(1, 1, <<List(<<Sym("c")>>)>>)>> >>)

MdBlocks == {H1, P1, H2, EmptyP, BulletX, OrderedX, OrderedY, TodoT, Divider,
             BadElements, Table11, Cell, BadCellId}

\* longer documents: a table with its cell and cell text, and a numbered list
\* of three items followed by a paragraph
Scenarios == {<<Table11, Cell, P1>>, <<OrderedX, OrderedY, OrderedX, P1>>}

MdDocuments == {List(q) : q \in SeqsUpTo(MdBlocks, MaxMdBlocks) \cup Scenarios}

\* the ids of the table blocks of a document
TableIds(raw) == {raw.v[i].d[<<"block_id">>] : i \in {j \in DOMAIN raw.v :
                                    EqInt(Get(raw.v[j], "block_type", Int_(0)), 31)}}

(***************************************************************************)
(* The walker, the table renderer and the emitter as a state machine:      *)
(* one call on one document                                                *)
(***************************************************************************)
InitMd ==
    /\ pc = "start"
    /\ raw_blocks \in MdDocuments
    /\ opts \in {MdOptions(extract_tables, FALSE, merge_lists) :
                    extract_tables \in BOOLEAN, merge_lists \in BOOLEAN}
    /\ ret = None
    /\ exc = "none"

CallToMarkdown ==
    /\ pc = "start"
    /\ \E r \in {to_markdown(raw_blocks, opts)} :
        /\ ret' = r.ret
        /\ exc' = r.exc
    /\ pc' = "rendered"
    /\ UNCHANGED <<raw_blocks, opts>>

\* iter_blocks as to_markdown calls it: skip_table_cells is extract_tables
CallIterBlocks ==
    /\ pc = "start"
    /\ \E r \in {iter_blocks(raw_blocks, opts.max_depth, opts.extract_tables)} :
        /\ ret' = List(r.value)
        /\ exc' = r.exc
    /\ pc' = "iterated"
    /\ UNCHANGED <<raw_blocks, opts>>

\* _extract_table_markdown_with_styles on one table block of the document
CallTableRenderer ==
    /\ pc = "start"
    /\ \E block_map \in {build_block_map(normalize_blocks(raw_blocks).ret.v, 1, <<>>)} :
        /\ block_map.exc = "none"
        /\ \E table_block_id \in TableIds(raw_blocks) :
            \E r \in {_extract_table_markdown_with_styles(table_block_id, block_map.value)} :
                /\ ret' = IF IsExc(r) THEN None ELSE r
                /\ exc' = IF IsExc(r) THEN r.e ELSE "none"
    /\ pc' = "table_rendered"
    /\ UNCHANGED <<raw_blocks, opts>>

NextMd == CallToMarkdown \/ CallIterBlocks \/ CallTableRenderer

SpecMd == InitMd /\ [][NextMd]_vars

(***************************************************************************)
(* Claims about the walker, the table renderer and the emitter             *)
(***************************************************************************)

\* C7: the core never raises on malformed data: for every list of block
\* dicts, iter_blocks, to_markdown and the table renderer complete without an
\* exception.
C7_NeverRaises ==
    pc \in {"rendered", "iterated", "table_rendered"} => exc = "none"

RECURSIVE SplitLines(_)
\* the lines of a text: s.split("\n")
SplitLines(s) ==
    LET breaks == {i \in DOMAIN s : s[i] = "\n"} IN
    IF breaks = {} THEN <<s>>
    ELSE LET i == Min(breaks) IN
         <<SubSeq(s, 1, i - 1)>> \o SplitLines(SubSeq(s, i + 1, Len(s)))

\* the render items of a document after the list merger
MergedItems(raw, o) ==
    LET block_map == build_block_map(normalize_blocks(raw).ret.v, 1, <<>>)
        records == iter_blocks(raw, o.max_depth, o.extract_tables)
    IN _merge_lists(collect_items(records.value, 1, block_map.value, o).value)

\* C8: every ordered item is emitted as the line "{k}. " + content, k being
\* the ordinal the list merger assigned to it.
C8_OrderedOrdinals ==
    (pc = "rendered" /\ exc = "none" /\ opts.merge_lists) =>
        LET items == MergedItems(raw_blocks, opts)
            lines == SplitLines(ret.s)
        IN \A i \in DOMAIN items :
            items[i].tag = "ordered" =>
                \E j \in DOMAIN lines :
                    lines[j] = encode_int(items[i].extra.n) \o <<".", " ">>
                                    \o items[i].content.s

\* a line of a bullet, todo or ordered item (the contents of the sample
\* blocks begin with a letter)
IsListLine(line) ==
    \/ Len(line) >= 2 /\ line[1] = "-" /\ line[2] = " "
    \/ Len(line) >= 2 /\ line[1] \in Digits /\ line[2] = "."

\* C9: with merge_lists on, a blank line separates the last line of a list
\* run from the first line of the non-list item that follows it.
C9_BlankAfterList ==
    (pc = "rendered" /\ exc = "none" /\ opts.merge_lists) =>
        LET lines == SplitLines(ret.s) IN
        \A j \in 1..(Len(lines) - 1) :
            (IsListLine(lines[j]) /\ ~IsListLine(lines[j + 1])) => lines[j + 1] = <<>>

\* a rich text of one unstyled text-run
IsPlainRich(x) ==
    /\ IsDict(x) /\ DOMAIN x.d = {<<"elements">>}
    /\ LET elements == Item(x, "elements") IN
        /\ IsList(elements) /\ Len(elements.v) = 1
        /\ LET elem == elements.v[1] IN
            /\ IsDict(elem) /\ DOMAIN elem.d = {<<"text_run">>}
            /\ LET text_run == Item(elem, "text_run") IN
                /\ IsDict(text_run) /\ DOMAIN text_run.d = {<<"content">>}
                /\ IsStr(Item(text_run, "content"))

PlainRichContent(x) == Item(Item(Item(x, "elements").v[1], "text_run"), "content").s

\* a childless block of the given fields besides block_id, block_type, children
HasOnlyField(b, field) ==
    /\ IsDict(b)
    /\ DOMAIN b.d = {<<"block_id">>, <<"block_type">>, <<"children">>, <<field>>}
    /\ IsStr(Item(b, "block_id")) /\ b.d[<<"block_type">>].k = "int"
    /\ Item(b, "children") = EmptyList
    /\ IsPlainRich(Item(b, field))

IsHeadingBlock(b) ==
    \E level \in 1..9 : HasOnlyField(b, HeadingFields[level])
                            /\ Item(b, "block_type") = Int_(level + 2)

IsTextBlock(b) == HasOnlyField(b, "text") /\ Item(b, "block_type") = Int_(2)

\* the lines the claim gives a heading block or a text block
ClaimedLines(b) ==
    IF IsTextBlock(b) THEN <<PlainRichContent(Item(b, "text")), <<>> >>
    ELSE LET level == Item(b, "block_type").n - 2 IN
         << [i \in 1..level |-> "#"] \o <<" ">>
                \o PlainRichContent(Item(b, HeadingFields[level])), <<>> >>

RECURSIVE ClaimedDocLines(_)
ClaimedDocLines(blocks) ==
    IF blocks = <<>> THEN <<>>
    ELSE ClaimedLines(blocks[1]) \o ClaimedDocLines(Tail(blocks))

\* C10 as stated: every heading block renders as its prefix line and a blank
\* line, every text block as its text and a blank line, joined by newline.
C10_AsStated ==
    (/\ pc = "rendered"
     /\ \A i \in DOMAIN raw_blocks.v :
            IsHeadingBlock(raw_blocks.v[i]) \/ IsTextBlock(raw_blocks.v[i])) =>
        /\ exc = "none"
        /\ ret = Str(JoinSeqs(ClaimedDocLines(raw_blocks.v), <<"\n">>))

\* C10 (amended): every heading block renders as "#" repeated level times, a
\* space, its text and a blank line, and every text block of non-empty text
\* as its text and a blank line, the lines joined by newline; heading1
\* "Title" then text "Hello" gives "# Title\n\nHello\n".
C10_HeadingParagraph ==
    (/\ pc = "rendered"
     /\ \A i \in DOMAIN raw_blocks.v :
            \/ IsHeadingBlock(raw_blocks.v[i])
            \/ /\ IsTextBlock(raw_blocks.v[i])
               /\ PlainRichContent(Item(raw_blocks.v[i], "text")) # <<>>) =>
        /\ exc = "none"
        /\ ret = Str(JoinSeqs(ClaimedDocLines(raw_blocks.v), <<"\n">>))

\* the end-to-end scenario has been rendered
C10_Witness ==
    /\ pc = "rendered"
    /\ raw_blocks = List(<<H1, P1>>)
    /\ ret = Str(<<"#", " ", "Title", "\n", "\n", "Hello", "\n">>)

(***************************************************************************)
(* Inputs of the two table renderers: one table block "tb", its cell       *)
(* blocks and, under each cell, the text block that holds the cell's text  *)
(***************************************************************************)
MaxRows == 2
MaxCols == 2
MaxCells == 3

\* cell texts: empty, with a blank before the text and a pipe in it, with an
\* inner line break, and with a backslash before a pipe
CellTexts == { <<>>, <<" ", "a", "|", "b">>, <<"x", "\n", "y">>, <<"\\", "|">> }

CellIdNames == <<"c1", "c2", "c3", "c4", "c5", "c6", "c7", "c8", "c9">>
CellTextIdNames == <<"p1", "p2", "p3", "p4", "p5", "p6", "p7", "p8", "p9">>

\* the cell block i and the text block under it
CellBlock(i) == Block(CellIdNames[i], 32, << <<"children", List(<<Sym(CellTextIdNames[i])>>)>> >>)
CellTextBlock(i, content) ==
    Block(CellTextIdNames[i], 2, << <<"text", RichText(content)>>, NoChildren >>)

\* a size of the table property: a count, or None for an absent key
SizeChoices(max) == {None} \cup {Int_(n) : n \in 0..max}

SizeField(name, size) == IF IsNone(size) THEN <<>> ELSE << <<name, size>> >>

\* the table block: with a property holding the sizes that are present,
\* without a property, or without table data at all
TableBlock(shape, row_size, column_size, n) ==
    LET cells == <<"cells", List([i \in 1..n |-> Sym(CellIdNames[i])])>>
        property == <<"property", MkDict(SizeField("row_size", row_size)
                                         \o SizeField("column_size", column_size))>>
    IN CASE shape = "property" -> Block("tb", 31, << <<"table", MkDict(<<property, cells>>)>> >>)
         [] shape = "no_property" -> Block("tb", 31, << <<"table", MkDict(<<cells>>)>> >>)
         [] shape = "no_table" -> Block("tb", 31, <<>>)

RECURSIVE CellBlocks(_, _)
\* the cell blocks and their text blocks, cell by cell
CellBlocks(texts, i) ==
    IF i > Len(texts) THEN <<>>
    ELSE <<CellBlock(i), CellTextBlock(i, texts[i])>> \o CellBlocks(texts, i + 1)

TableDocument(shape, row_size, column_size, texts) ==
    List(<<TableBlock(shape, row_size, column_size, Len(texts))>> \o CellBlocks(texts, 1))

TableDocuments ==
    {TableDocument("property", rs, cs, texts) :
        rs \in SizeChoices(MaxRows), cs \in SizeChoices(MaxCols),
        texts \in SeqsUpTo(CellTexts, MaxCells)}
    \cup {TableDocument(shape, None, None, texts) :
        shape \in {"no_property", "no_table"}, texts \in SeqsUpTo(CellTexts, MaxCells)}

(***************************************************************************)
(* The two table renderers as a state machine: one call on one table       *)
(***************************************************************************)
InitTable ==
    /\ pc = "start"
    /\ raw_blocks \in TableDocuments
    /\ opts = MdOptions(TRUE, FALSE, TRUE)
    /\ ret = None
    /\ exc = "none"

\* _extract_table_markdown_with_styles(block_id, blocks, block_map) with
\* the block map to_markdown builds
CallStyledTable ==
    /\ pc = "start"
    /\ \E block_map \in {build_block_map(raw_blocks.v, 1, <<>>)} :
        \E r \in {_extract_table_markdown_with_styles(Sym("tb"), block_map.value)} :
            /\ ret' = IF IsExc(r) THEN None ELSE r
            /\ exc' = IF IsExc(r) THEN r.e ELSE "none"
    /\ pc' = "styled_table"
    /\ UNCHANGED <<raw_blocks, opts>>

\* _extract_table_markdown(block_id, blocks, block_map)
CallPlainTable ==
    /\ pc = "start"
    /\ \E block_map \in {build_block_map(raw_blocks.v, 1, <<>>)} :
        \E r \in {_extract_table_markdown(Sym("tb"), block_map.value)} :
            /\ ret' = IF IsExc(r) THEN None ELSE r
            /\ exc' = IF IsExc(r) THEN r.e ELSE "none"
    /\ pc' = "plain_table"
    /\ UNCHANGED <<raw_blocks, opts>>

NextTable == CallStyledTable \/ CallPlainTable

SpecTable == InitTable /\ [][NextTable]_vars

\* the state after either renderer returned
TableDone == pc \in {"styled_table", "plain_table"}

(***************************************************************************)
(* What a table document says: its sizes and the text typed in each cell   *)
(***************************************************************************)
DocProperty == Get(Get(raw_blocks.v[1], "table", EmptyDict), "property", EmptyDict)
DocRows == IntVal(Get(DocProperty, "row_size", Int_(0)))
DocCols == IntVal(Get(DocProperty, "column_size", Int_(0)))
\* the number of entries of `cells`
DocCellCount == (Len(raw_blocks.v) - 1) \div 2
\* the content of the text block under cell number i, counted from 0
DocCellText(i) ==
    raw_blocks.v[2 * i + 3].d[<<"text">>].d[<<"elements">>].v[1].d[<<"text_run">>].d[<<"content">>].s

RECURSIVE WithEscapedPipes(_)
\* a text with a backslash put before each pipe
WithEscapedPipes(t) ==
    IF t = <<>> THEN <<>>
    ELSE (IF Head(t) = "|" THEN <<"\\", "|">> ELSE <<Head(t)>>) \o WithEscapedPipes(Tail(t))

\* what the cell at (row, col) is expected to show
ExpectedCell(row, col) ==
    LET idx == row * DocCols + col IN
    IF idx < DocCellCount THEN WithEscapedPipes(Strip(DocCellText(idx))) ELSE <<>>

RECURSIVE ExpectedCells(_, _)
\* the cells of a row from column col on, each followed by its closing pipe
ExpectedCells(row, col) ==
    IF col >= DocCols THEN <<>>
    ELSE <<" ">> \o ExpectedCell(row, col) \o <<" ", "|">> \o ExpectedCells(row, col + 1)

ExpectedRow(row) == <<"|">> \o ExpectedCells(row, 0)

RECURSIVE ExpectedDashes(_)
ExpectedDashes(n) ==
    IF n = 0 THEN <<>> ELSE <<" ", "-", "-", "-", " ", "|">> \o ExpectedDashes(n - 1)

ExpectedSeparator == <<"|">> \o ExpectedDashes(DocCols)

RECURSIVE ExpectedLaterRows(_)
\* rows row, row + 1, ..., each on a new line
ExpectedLaterRows(row) ==
    IF row >= DocRows THEN <<>>
    ELSE <<"\n">> \o ExpectedRow(row) \o ExpectedLaterRows(row + 1)

\* row 0, the separator, then the other rows in order
ExpectedTable == ExpectedRow(0) \o <<"\n">> \o ExpectedSeparator \o ExpectedLaterRows(1)

\* C11: table geometry: with row_size R > 0 and column_size C > 0 the
\* rendered table is R row lines of C cells each in row order, with one
\* separator line of C dash cells right after row 0 and nowhere else; the
\* cell at (row, col) shows the text of cells[row*C + col], an index at or
\* beyond the length of `cells` shows an empty cell without an error, and
\* cells beyond R*C are left out.
C11_TableGeometry ==
    (pc = "styled_table" /\ DocRows > 0 /\ DocCols > 0)
        => (exc = "none" /\ ret = Str(ExpectedTable))

\* a 2 x 2 table with three cells: the last cell renders empty
C11_Witness ==
    /\ pc = "styled_table"
    /\ DocRows = 2 /\ DocCols = 2 /\ DocCellCount = 3
    /\ DocCellText(0) = <<" ", "a", "|", "b">> /\ DocCellText(1) = <<"x", "\n", "y">>
    /\ DocCellText(2) = <<"\\", "|">>
    /\ exc = "none"

\* the table block carries table data (a non-empty `table` dict)
HasTableData == Truthy(Get(raw_blocks.v[1], "table", EmptyDict))

EmptyTablePlaceholder == Sym("[Table: empty table]")
NoContentPlaceholder == Sym("[Table: unable to extract content]")

\* a string that begins with a row line
BeginsWithRowLine(text) ==
    /\ IsStr(text) /\ Len(text.s) >= 4
    /\ SubSeq(text.s, 1, 2) = <<"|", " ">>
    /\ \E i \in 3..Len(text.s) :
        /\ SubSeq(text.s, i - 1, i) = <<" ", "|">>
        /\ (i = Len(text.s) \/ text.s[i + 1] = "\n")

UnescapedPipes(text) ==
    {i \in DOMAIN text : text[i] = "|" /\ (i = 1 \/ text[i - 1] # "\\")}

\* the pipes of a text that have a backslash right before them
EscapedPipes(text) ==
    {i \in DOMAIN text : text[i] = "|" /\ i > 1 /\ text[i - 1] = "\\"}

\* the indices of the cells the table shows
ShownCells == {i \in 0..(DocRows * DocCols - 1) : i < DocCellCount}

RECURSIVE PipesTyped(_)
\* the number of pipes in the texts of the cells of a set
PipesTyped(cells) ==
    IF cells = {} THEN 0
    ELSE LET i == CHOOSE j \in cells : TRUE IN
         Cardinality({k \in DOMAIN Strip(DocCellText(i)) : Strip(DocCellText(i))[k] = "|"})
            + PipesTyped(cells \ {i})

\* C13: table cell escaping: every pipe of a cell's text is emitted with a
\* backslash before it, so the pipes of the rendered table without a
\* backslash before them are the separators alone, column_size + 1 for each
\* row line (and for the separator line), whatever the cells hold; a row
\* line is the string emitted for one row, and where no cell text holds a
\* line break it is one line of the output.
C13_PipesEscaped ==
    (pc = "styled_table" /\ DocRows > 0 /\ DocCols > 0) =>
        /\ exc = "none"
        /\ Cardinality(EscapedPipes(ret.s)) = PipesTyped(ShownCells)
        /\ Cardinality(UnescapedPipes(ret.s)) = (DocRows + 1) * (DocCols + 1)
        /\ (\A i \in ShownCells : "\n" \notin {DocCellText(i)[k] : k \in DOMAIN DocCellText(i)})
            => LET lines == SplitLines(ret.s) IN
               /\ Len(lines) = DocRows + 1
               /\ \A n \in DOMAIN lines : Cardinality(UnescapedPipes(lines[n])) = DocCols + 1

\* a 2 x 2 table whose cells hold a pipe, and a pipe after a backslash
C13_Witness ==
    /\ pc = "styled_table"
    /\ DocRows = 2 /\ DocCols = 2 /\ DocCellCount = 3
    /\ DocCellText(0) = <<" ", "a", "|", "b">>
    /\ DocCellText(1) = <<"\\", "|">>
    /\ DocCellText(2) = <<>>
    /\ exc = "none"
    /\ Cardinality(EscapedPipes(ret.s)) = 2

(***************************************************************************)
(* Inputs of the tree walker: nested documents.  A block's children hold   *)
(* the child blocks themselves; the id of a block spells its path from the *)
(* top, so that its depth is the length of its id less one                 *)
(***************************************************************************)
MaxNesting == 2
MaxDepth == 2

NestedBlock(path, children) ==
    MkDict(<< <<"block_id", Str(path)>>, <<"block_type", Int_(2)>>,
              <<"children", List(children)>> >>)

RECURSIVE NestTrees(_, _)
\* the blocks at `path` with at most d levels below them: without children,
\* with an id string and one child, or with two children
NestTrees(d, path) ==
    IF d = 0 THEN {NestedBlock(path, <<>>)}
    ELSE {NestedBlock(path, <<>>)}
         \cup {NestedBlock(path, <<Sym("s"), t>>) : t \in NestTrees(d - 1, path \o <<"a">>)}
         \cup {NestedBlock(path, <<t, u>>) : t \in NestTrees(d - 1, path \o <<"a">>),
                                            u \in NestTrees(d - 1, path \o <<"b">>)}

NestDocs ==
    {List(<<t>>) : t \in NestTrees(MaxNesting, <<"n">>)}
    \cup {List(<<t, NestedBlock(<<"m">>, <<>>)>>) : t \in NestTrees(MaxNesting, <<"n">>)}

\* the arguments of iter_blocks other than blocks
WalkOptions(max_depth, skip_table_cells) ==
    [max_depth |-> max_depth, extract_tables |-> skip_table_cells,
     extract_whiteboards |-> FALSE, merge_lists |-> TRUE]

(***************************************************************************)
(* Inputs of the tree walker: flat documents, as the API sends them.  All  *)
(* blocks are at the top level and children are lists of block ids: a      *)
(* table "tb" of two cells "c1" and "c2", and two text blocks "p1", "p2".  *)
(* The children of the cells and of "p1" vary, cycles included.            *)
(***************************************************************************)
LinkedIds == {"c1", "c2", "p1", "p2"}

\* children lists: none, or one id
ChildLists(ids) == {<<>>} \cup {<<Sym(id)>> : id \in ids}

LinkedBlock(id, block_type, children) ==
    Block(id, block_type, << <<"children", List(children)>> >>)

\* the table holds the ids of its cells and, in one variant, a whole block
TableChildren == {<<Sym("c1"), Sym("c2")>>,
                  <<Sym("c1"), Sym("c2"), NestedBlock(<<"e">>, <<>>)>>}

LinkDocs ==
    {List(<<LinkedBlock("tb", 31, table_children),
            LinkedBlock("c1", 32, children1),
            LinkedBlock("c2", 32, children2),
            LinkedBlock("p1", 2, children3),
            LinkedBlock("p2", 2, <<>>)>>) :
        table_children \in TableChildren,
        children1 \in ChildLists(LinkedIds), children2 \in ChildLists(LinkedIds),
        children3 \in ChildLists(LinkedIds \ {"c2"})}

(***************************************************************************)
(* Inputs of the tree walker: one block with some of the fields `text`,    *)
(* `heading2`, `code`, `bullet` and `todo`, and one block of each type     *)
(***************************************************************************)
MaxTypeCode == 17

\* a rich text of one text-run that is struck through: it has a styled
\* text and no plain text
StruckText(content) ==
    MkDict(<< <<"elements", List(<<MkDict(<< <<"text_run",
                MkDict(<< <<"content", Str(content)>>,
                          <<"text_element_style",
                            MkDict(<< <<"strikethrough", Bool(TRUE)>> >>)>> >>)>> >>)>>)>> >>)

\* the values a field takes; Absent stands for a block without the field
Absent == [k |-> "absent"]
TextChoices == {Absent, RichText(<<"x">>), StruckText(<<"s">>), Sym("t")}
HeadingChoices == {Absent, RichText(<<"h">>), StruckText(<<"g">>)}
CodeChoices == {Absent, MkDict(<< <<"code", Sym("c")>> >>)}
BulletChoices == {Absent, RichText(<<"b">>), EmptyDict}
TodoChoices == {Absent, EmptyDict, MkDict(<< <<"done", Bool(TRUE)>> >>),
                MkDict(<< <<"done", Bool(FALSE)>> >>)}

Field(name, value) == IF value = Absent THEN <<>> ELSE << <<name, value>> >>

FieldDocs ==
    {List(<<Block("f", block_type,
                  Field("text", text) \o Field("heading2", heading) \o Field("code", code)
                    \o Field("bullet", bullet) \o Field("todo", todo))>>) :
        block_type \in {2, 4, 14, 16}, text \in TextChoices, heading \in HeadingChoices,
        code \in CodeChoices, bullet \in BulletChoices, todo \in TodoChoices}

TypedDocs == {List(<<Block("y", block_type, <<>>)>>) : block_type \in 0..MaxTypeCode}

WalkDocuments == NestDocs \cup LinkDocs \cup FieldDocs \cup TypedDocs

(***************************************************************************)
(* The tree walker as a state machine: one call of iter_blocks, read to    *)
(* its end                                                                 *)
(***************************************************************************)
InitWalk ==
    /\ pc = "start"
    /\ \/ /\ raw_blocks \in NestDocs \cup LinkDocs
          /\ opts \in {WalkOptions(max_depth, skip_table_cells) :
                          max_depth \in 0..MaxDepth, skip_table_cells \in BOOLEAN}
       \/ /\ raw_blocks \in FieldDocs \cup TypedDocs
          /\ opts \in {WalkOptions(DefaultMaxDepth, skip_table_cells) :
                          skip_table_cells \in BOOLEAN}
    /\ ret = None
    /\ exc = "none"

NextWalk == CallIterBlocks

SpecWalk == InitWalk /\ [][NextWalk]_vars

RECURSIVE IdsIn(_)
\* the ids of the blocks of a list and of the blocks nested in them
IdsIn(block_list) ==
    UNION {IF IsDict(block_list[i])
           THEN {block_list[i].d[<<"block_id">>]}
                    \cup IdsIn(Get(block_list[i], "children", EmptyList).v)
           ELSE {} : i \in DOMAIN block_list}

\* the depth of a block of a nested document
DepthOfId(id) == Len(id.s) - 1

\* the ids of the records iter_blocks yielded, in order
YieldedIds == [i \in DOMAIN ret.v |-> ret.v[i].block_id]

\* C14: depth guard: iter_blocks yields no record for a block nested deeper
\* than max_depth (top-level blocks are at depth 0), yields every block at
\* depth <= max_depth, once, and cuts the deeper subtrees without raising.
C14_DepthGuard ==
    (pc = "iterated" /\ raw_blocks \in NestDocs) =>
        /\ exc = "none"
        /\ \A i \in DOMAIN YieldedIds : DepthOfId(YieldedIds[i]) <= opts.max_depth
        /\ {YieldedIds[i] : i \in DOMAIN YieldedIds}
                = {id \in IdsIn(raw_blocks.v) : DepthOfId(id) <= opts.max_depth}
        /\ \A i, j \in DOMAIN YieldedIds : YieldedIds[i] = YieldedIds[j] => i = j

\* a document three levels deep walked with max_depth 1: the blocks of the
\* third level are left out, the top-level block after them is not
C14_Witness ==
    /\ pc = "iterated"
    /\ opts.max_depth = 1
    /\ Str(<<"n", "a", "b">>) \in IdsIn(raw_blocks.v)
    /\ YieldedIds = <<Str(<<"n">>), Str(<<"n", "a">>), Str(<<"n", "b">>), Str(<<"m">>)>>
    /\ exc = "none"

\* the top-level blocks of the document that are dicts
TopBlocks == {raw_blocks.v[i] : i \in {j \in DOMAIN raw_blocks.v : IsDict(raw_blocks.v[j])}}

\* the ids in the children list of the blocks with the id `id`
ChildIdsOf(id) ==
    UNION {{c \in {b.d[<<"children">>].v[i] : i \in DOMAIN b.d[<<"children">>].v} : IsStr(c)} :
            b \in {t \in TopBlocks : Has(t, "children") /\ t.d[<<"block_id">>] = id}}

RECURSIVE ReachedFrom(_, _)
\* the ids reached from a set of ids through children ids, the set included
ReachedFrom(ids, steps) ==
    IF steps = 0 THEN ids
    ELSE ReachedFrom(ids \cup UNION {ChildIdsOf(id) : id \in ids}, steps - 1)

\* the transitive descendants of a block through children ids
DescendantIds(id) == ReachedFrom(ChildIdsOf(id), Len(raw_blocks.v))

\* the children relation of the document contains a cycle
HasCycle == \E b \in TopBlocks : b.d[<<"block_id">>] \in DescendantIds(b.d[<<"block_id">>])

\* C15: termination on cyclic children: for a block list whose children
\* relation contains a cycle (table-cell blocks that reference each other
\* through children ids included) and for both values of skip_table_cells,
\* iter_blocks ends with a finite output and does not crash.
C15_CyclicTerminates ==
    (pc = "iterated" /\ raw_blocks \in LinkDocs /\ HasCycle) => exc = "none"

\* the ids of the top-level blocks of a type
IdsOfType(block_type) ==
    {b.d[<<"block_id">>] : b \in {t \in TopBlocks : EqInt(Get(t, "block_type", Int_(0)), block_type)}}

\* the ids of the blocks nested in the children of the top-level tables
NestedInTables ==
    UNION {IdsIn(Get(t, "children", EmptyList).v) :
            t \in {b \in TopBlocks : EqInt(Get(b, "block_type", Int_(0)), 31)}}

\* C16: table suppression: with skip_table_cells set, iter_blocks, when it
\* returns, has yielded no table-cell block (type 32) and no transitive
\* descendant, through children ids, of a table-cell block, and has yielded
\* each table block (type 31) as exactly one record without walking any of
\* the table's children.
C16_TableSuppression ==
    (pc = "iterated" /\ raw_blocks \in LinkDocs /\ opts.extract_tables /\ exc = "none") =>
        /\ \A i \in DOMAIN ret.v : ~EqInt(ret.v[i].block_type, 32)
        /\ \A i \in DOMAIN ret.v : \A cell \in IdsOfType(32) :
                YieldedIds[i] \notin DescendantIds(cell)
        /\ \A table \in IdsOfType(31) :
                Cardinality({i \in DOMAIN ret.v : YieldedIds[i] = table}) = 1
        /\ \A i \in DOMAIN ret.v : YieldedIds[i] \notin NestedInTables

\* cell c1 holds p1 and p1 holds p2, the table holds a whole block next to
\* its cell ids: the table is the one record
C16_Witness ==
    /\ pc = "iterated" /\ opts.extract_tables /\ exc = "none"
    /\ raw_blocks \in LinkDocs
    /\ Len(raw_blocks.v[1].d[<<"children">>].v) = 3
    /\ DescendantIds(Sym("c1")) = {Sym("p1"), Sym("p2")}
    /\ YieldedIds = <<Sym("tb")>>

\* the one block of a one-block document, and its record
TheBlock == raw_blocks.v[1]
TheRecord == ret.v[1]

Nothing == [plain |-> EmptyStr, styled |-> EmptyStr]

\* what a field of the block yields: a plain and a styled text, both empty
\* when the field is absent or holds no content
YieldOf(name) ==
    IF ~Has(TheBlock, name) THEN Nothing
    ELSE LET value == Item(TheBlock, name) IN
         IF IsStr(value) THEN [plain |-> value, styled |-> value]
         ELSE extract_from_data(value)

\* what code.code yields: the code text, as plain and as styled text
YieldOfCode ==
    IF ~Has(TheBlock, "code") THEN Nothing
    ELSE LET code_text == Get(Item(TheBlock, "code"), "code", EmptyStr) IN
         [plain |-> code_text, styled |-> code_text]

\* the yields of the fields in the order of precedence
YieldsInOrder == <<YieldOf("text"), YieldOf("heading2"), YieldOfCode, YieldOf("bullet")>>

\* the first text of a sequence that is not empty, or the empty text
FirstContent(texts) ==
    LET with_content == {i \in DOMAIN texts : Truthy(texts[i])} IN
    IF with_content = {} THEN EmptyStr ELSE texts[Min(with_content)]

\* C17: field precedence: the plain text and the styled text of a block's
\* record each come from the first of the fields text, headingN, code.code,
\* bullet that yields content; once an earlier field has produced the plain
\* or the styled value, no later field overrides it.  (A record without any
\* styled value shows its plain text as inline_text.)
C17_FieldPrecedence ==
    (pc = "iterated" /\ raw_blocks \in FieldDocs /\ exc = "none") =>
        LET plain == FirstContent([i \in DOMAIN YieldsInOrder |-> YieldsInOrder[i].plain])
            styled == FirstContent([i \in DOMAIN YieldsInOrder |-> YieldsInOrder[i].styled])
        IN /\ TheRecord.text = plain
           /\ TheRecord.inline_text = (IF Truthy(styled) THEN styled ELSE plain)

\* C18: checked-state: the record of a todo block (type 16) has checked
\* equal to the `done` boolean of the block's todo payload, false when it
\* is absent, whatever other fields the block carries; the record of a
\* block of another type has checked = false.
C18_CheckedState ==
    (pc = "iterated" /\ raw_blocks \in FieldDocs /\ exc = "none") =>
        TheRecord.checked =
            (IF EqInt(TheBlock.d[<<"block_type">>], 16)
             THEN Get(Get(TheBlock, "todo", EmptyDict), "done", Bool(FALSE))
             ELSE Bool(FALSE))

\* C19: heading level mapping: the level of a block record is
\* block_type - 2 exactly when 3 <= block_type <= 11 (type 3 gives level 1,
\* type 11 gives level 9) and is absent (None) for every other type code.
C19_HeadingLevel ==
    pc = "iterated" =>
        \A i \in DOMAIN ret.v :
            LET block_type == IntVal(ret.v[i].block_type) IN
            /\ (3 <= block_type /\ block_type <= 11)
                    => ret.v[i].level = Int_(block_type - 2)
            /\ ~(3 <= block_type /\ block_type <= 11) => ret.v[i].level = None

\* the record of a block of type 11
C19_Witness ==
    /\ pc = "iterated" /\ exc = "none"
    /\ raw_blocks \in TypedDocs
    /\ TheRecord.block_type = Int_(11)
    /\ TheRecord.level = Int_(9)

(***************************************************************************)
(* Inputs of the inline style extractor: a rich text whose first text-run  *)
(* carries any combination of the five style flags, a link, a color and a  *)
(* background, followed by further text-runs                               *)
(***************************************************************************)
MaxElements == 2

StyleFlags == <<"strikethrough", "underline", "italic", "bold", "code">>

\* the style dict with the flags of `on` true and the others false
StyleDict(on, color, background) ==
    MkDict([i \in DOMAIN StyleFlags |-> <<StyleFlags[i], Bool(StyleFlags[i] \in on)>>]
           \o Field("color", color) \o Field("background", background))

\* {"text_run": {"content": ..., "text_element_style": ..., "link": ...}}
TextRun(content, style, link) ==
    MkDict(<< <<"text_run", MkDict(<< <<"content", Str(content)>>,
                                      <<"text_element_style", style>> >>
                                   \o Field("link", link))>> >>)

StyledRuns ==
    {TextRun(<<"x">>, StyleDict(on, color, background), link) :
        on \in SUBSET {StyleFlags[i] : i \in DOMAIN StyleFlags},
        color \in {Absent, Sym("red")}, background \in {Absent, Sym("blue")},
        link \in {Absent, Sym("u")}}

\* the text-runs that follow: one without a style dict, one bold
LaterRuns ==
    {MkDict(<< <<"text_run", MkDict(<< <<"content", Str(<<"y">>)>> >>)>> >>),
     TextRun(<<"z">>, StyleDict({"bold"}, Absent, Absent), Absent)}

StyleInputs ==
    {MkDict(<< <<"elements", List(<<first>> \o later)>> >>) :
        first \in StyledRuns, later \in SeqsUpTo(LaterRuns, MaxElements - 1)}

(***************************************************************************)
(* The inline style extractor as a state machine: one call on a rich text  *)
(***************************************************************************)
InitStyle ==
    /\ pc = "start"
    /\ raw_blocks \in StyleInputs
    /\ opts = MdOptions(TRUE, FALSE, TRUE)
    /\ ret = None
    /\ exc = "none"

\* _extract_text_with_styles(text_data)
CallExtractStyles ==
    /\ pc = "start"
    /\ \E r \in {_extract_text_with_styles(raw_blocks)} :
        /\ ret' = IF IsExc(r) THEN None ELSE r
        /\ exc' = IF IsExc(r) THEN r.e ELSE "none"
    /\ pc' = "styled"
    /\ UNCHANGED <<raw_blocks, opts>>

NextStyle == CallExtractStyles

SpecStyle == InitStyle /\ [][NextStyle]_vars

\* the wraps from innermost to outermost: flag, opening, closing
WrapOrder == << <<"strikethrough", <<"~", "~">>, <<"~", "~">> >>,
                <<"underline", <<"<u>">>, <<"</u>">> >>,
                <<"italic", <<"*">>, <<"*">> >>,
                <<"bold", <<"*", "*">>, <<"*", "*">> >>,
                <<"code", <<Backtick>>, <<Backtick>> >> >>

RECURSIVE Wrapped(_, _, _)
\* the text inside the wraps 1..n of WrapOrder that the style turns on
Wrapped(text, style, n) ==
    IF n = 0 THEN text
    ELSE LET inner == Wrapped(text, style, n - 1) IN
         IF Truthy(Get(style, WrapOrder[n][1], None))
         THEN WrapOrder[n][2] \o inner \o WrapOrder[n][3]
         ELSE inner

\* the span around a text, when the style has a color or a background
Spanned(text, style) ==
    LET color == IF Has(style, "color") THEN <<"color:">> \o Item(style, "color").s ELSE <<>>
        background == IF Has(style, "background")
                      THEN <<"background-color:">> \o Item(style, "background").s ELSE <<>>
        both == Has(style, "color") /\ Has(style, "background")
    IN IF ~Has(style, "color") /\ ~Has(style, "background") THEN text
       ELSE <<"<span style=", "\"">> \o color \o (IF both THEN <<";">> ELSE <<>>) \o background
                \o <<"\"", ">">> \o text \o <<"</span>">>

\* what a text-run is expected to render as: link, then wraps, then span
ExpectedRun(elem) ==
    LET text_run == Item(elem, "text_run")
        content == Item(text_run, "content").s
        style == Get(text_run, "text_element_style", EmptyDict)
        linked == IF Has(text_run, "link")
                  THEN <<"[">> \o content \o <<"]", "(">> \o Item(text_run, "link").s \o <<")">>
                  ELSE content
    IN Spanned(Wrapped(linked, style, Len(WrapOrder)), style)

RECURSIVE ExpectedRuns(_, _)
\* the expected renderings of the elements from i on, one after the other
ExpectedRuns(elements, i) ==
    IF i > Len(elements) THEN <<>>
    ELSE ExpectedRun(elements[i]) \o ExpectedRuns(elements, i + 1)

\* the flags that are on in the first text-run
FlagsOn ==
    LET style == Item(Item(raw_blocks.d[<<"elements">>].v[1], "text_run"), "text_element_style")
    IN {StyleFlags[i] : i \in {j \in DOMAIN StyleFlags : Truthy(Item(style, StyleFlags[j]))}}

\* the first text-run has no link, no color and no background
FirstRunBare ==
    LET text_run == Item(raw_blocks.d[<<"elements">>].v[1], "text_run") IN
    /\ ~Has(text_run, "link")
    /\ ~Has(Item(text_run, "text_element_style"), "color")
    /\ ~Has(Item(text_run, "text_element_style"), "background")

\* C20: style nesting order: for every combination of style flags on a
\* text-run the wraps go, innermost to outermost, link, strikethrough (~~),
\* underline (<u>), italic (*), bold (**), inline code (backquote) and last
\* the color/background span; so bold+italic+code on a content gives
\* ***content*** inside backquotes; and the outputs of the elements are
\* concatenated in element order with no separator.
C20_StyleNesting ==
    pc = "styled" =>
        /\ exc = "none"
        /\ ret = Str(ExpectedRuns(raw_blocks.d[<<"elements">>].v, 1))
        /\ (FlagsOn = {"bold", "italic", "code"} /\ FirstRunBare
                /\ Len(raw_blocks.d[<<"elements">>].v) = 1)
            => ret.s = <<Backtick, "*", "*", "*", "x", "*", "*", "*", Backtick>>

\* a linked text-run with all five flags, a color and a background,
\* followed by a second text-run
C20_Witness ==
    /\ pc = "styled" /\ exc = "none"
    /\ Cardinality(FlagsOn) = 5
    /\ Len(raw_blocks.d[<<"elements">>].v) = 2
    /\ Prefix(ret.s, 8) = <<"<span style=", "\"", "color:", "red", ";", "background-color:",
                            "blue", "\"">>
    /\ ret.s[Len(ret.s)] = "y"

(***************************************************************************)
(* Inputs of the two text extractors: a rich text with a document mention  *)
(* between the text-runs "a" and "b", and rich texts of a few text-runs    *)
(* that are struck through or not                                          *)
(***************************************************************************)
MaxRuns == 2

PlainRun(content) == MkDict(<< <<"text_run", MkDict(<< <<"content", Str(content)>> >>)>> >>)

\* an element whose text-run has an empty content and whose inline
\* component is a document mention
MentionElement(on, link, url, title) ==
    MkDict(<< <<"text_run", MkDict(<< <<"content", EmptyStr>>,
                                      <<"text_element_style", StyleDict(on, Absent, Absent)>> >>
                                   \o Field("link", link))>>,
              <<"inline_component", MkDict(<< <<"type", Sym("mention_doc")>> >>
                                           \o Field("raw_url", url) \o Field("title", title))>> >>)

MentionInputs ==
    {MkDict(<< <<"elements", List(<<PlainRun(<<"a">>), MentionElement(on, link, url, title),
                                    PlainRun(<<"b">>)>>)>> >>) :
        on \in SUBSET {"strikethrough", "bold", "code"}, link \in {Absent, Sym("L")},
        url \in {Absent, EmptyStr, Sym("u")}, title \in {Absent, Sym("T")}}

\* text-runs with and without a style dict, struck through or not
MixedRuns ==
    {PlainRun(<<"a">>)}
    \cup {TextRun(content, StyleDict(on, Absent, Absent), Absent) :
            content \in {<<"b">>, <<"c", "d">>}, on \in SUBSET {"strikethrough", "bold"}}

MixedInputs == {MkDict(<< <<"elements", List(runs)>> >>) : runs \in SeqsUpTo(MixedRuns, MaxRuns)}

RichInputs == MentionInputs \cup MixedInputs

(***************************************************************************)
(* The two text extractors as a state machine: one call on one rich text   *)
(***************************************************************************)
InitRich ==
    /\ pc = "start"
    /\ raw_blocks \in RichInputs
    /\ opts = MdOptions(TRUE, FALSE, TRUE)
    /\ ret = None
    /\ exc = "none"

\* extract_from_data(data, for_inline=True): the pair (plain, styled)
CallExtractFromData ==
    /\ pc = "start"
    /\ \E r \in {extract_from_data(raw_blocks)} :
        \E failed \in {FirstExc(<<r.plain, r.styled>>)} :
            /\ ret' = IF IsExc(failed) THEN None ELSE List(<<r.plain, r.styled>>)
            /\ exc' = IF IsExc(failed) THEN failed.e ELSE "none"
    /\ pc' = "extracted"
    /\ UNCHANGED <<raw_blocks, opts>>

NextRich == CallExtractStyles \/ CallExtractFromData

SpecRich == InitRich /\ [][NextRich]_vars

\* the element in the middle of a mention input, and its parts
TheMention == raw_blocks.d[<<"elements">>].v[2]
MentionUrl == Get(Item(TheMention, "inline_component"), "raw_url", EmptyStr)
MentionTitle == Get(Item(TheMention, "inline_component"), "title", EmptyStr)

\* C21: a document mention without a URL is omitted: an element with empty
\* text-run content whose inline component is a document mention with no
\* URL contributes the empty string to the styled text, whatever style
\* flags or link its text-run carries; with a URL it contributes
\* [title](url).
C21_MentionWithoutUrl ==
    (pc = "styled" /\ raw_blocks \in MentionInputs) =>
        /\ exc = "none"
        /\ ret.s = <<"a">>
                    \o (IF Truthy(MentionUrl)
                        THEN <<"[">> \o MentionTitle.s \o <<"]", "(">> \o MentionUrl.s \o <<")">>
                        ELSE <<>>)
                    \o <<"b">>

\* the element's style marks strikethrough
MarksStrikethrough(elem) ==
    Truthy(Get(Get(Get(elem, "text_run", EmptyDict), "text_element_style", EmptyDict),
               "strikethrough", None))

RECURSIVE ExpectedPlain(_, _)
\* the contents of the elements from i on that are not struck through
ExpectedPlain(elements, i) ==
    IF i > Len(elements) THEN <<>>
    ELSE (IF MarksStrikethrough(elements[i]) THEN <<>>
          ELSE Get(Get(elements[i], "text_run", EmptyDict), "content", EmptyStr).s)
         \o ExpectedPlain(elements, i + 1)

\* C22: plain-text variant: the plain text of a rich-text object is the
\* concatenation, in element order, of the text-run contents of exactly the
\* elements whose style does not mark strikethrough, with no style wrapping;
\* it does not depend on what the styled variant makes of the same object.
C22_PlainText ==
    (pc = "extracted") =>
        /\ exc = "none"
        /\ ret.v[1] = Str(ExpectedPlain(raw_blocks.d[<<"elements">>].v, 1))

\* a struck and bold "b" followed by a bold "cd": the plain text is "cd"
\* while the styled text keeps both with their wraps
C22_Witness ==
    /\ pc = "extracted" /\ exc = "none"
    /\ raw_blocks \in MixedInputs
    /\ Len(raw_blocks.d[<<"elements">>].v) = 2
    /\ MarksStrikethrough(raw_blocks.d[<<"elements">>].v[1])
    /\ ret.v[1] = Str(<<"c", "d">>)
    /\ ret.v[2] = Str(<<"*", "*", "~", "~", "b", "~", "~", "*", "*", "*", "*", "c", "d", "*", "*">>)

(***************************************************************************)
(* Inputs of the list merger: sequences of render items as the first pass  *)
(* of to_markdown collects them, and with extras it never sets, since the  *)
(* merger takes any                                                        *)
(***************************************************************************)
MaxItems == 4

ItemChoices ==
    {RenderItem("paragraph", Sym("p"), None),
     RenderItem("heading", Sym("h"), Int_(1)),
     RenderItem("bullet", Sym("x"), None),
     RenderItem("ordered", Sym("o"), None),
     RenderItem("ordered", Sym("q"), Int_(5)),
     RenderItem("todo", Sym("t"), Bool(TRUE)),
     RenderItem("todo", Sym("u"), Bool(FALSE))}

ItemSeqs == SeqsUpTo(ItemChoices, MaxItems)

(***************************************************************************)
(* The list merger as a state machine: one call on one item sequence       *)
(***************************************************************************)
InitMerge ==
    /\ pc = "start"
    /\ raw_blocks \in ItemSeqs
    /\ opts = MdOptions(TRUE, FALSE, TRUE)
    /\ ret = None
    /\ exc = "none"

\* _merge_lists(items)
CallMergeLists ==
    /\ pc = "start"
    /\ ret' = _merge_lists(raw_blocks)
    /\ exc' = "none"
    /\ pc' = "merged"
    /\ UNCHANGED <<raw_blocks, opts>>

NextMerge == CallMergeLists

SpecMerge == InitMerge /\ [][NextMerge]_vars

\* the tag and the content of each item of a sequence
TagsAndContents(items) == [i \in DOMAIN items |-> <<items[i].tag, items[i].content>>]

\* a sequence without its blank items
WithoutBlanks(items) == SelectSeq(items, LAMBDA item : item.tag # "blank")

\* C23: the list merger preserves items: the output of _merge_lists holds
\* the tag and content of every input item once and in the input order, the
\* only additions being blank items; the output is never shorter than the
\* input, and without its blank items (and the ordinals) it is the input.
C23_MergerPreservesItems ==
    pc = "merged" =>
        /\ Len(ret) >= Len(raw_blocks)
        /\ TagsAndContents(WithoutBlanks(ret)) = TagsAndContents(raw_blocks)

\* two ordered items, a paragraph and a bullet: one blank is added
C23_Witness ==
    /\ pc = "merged"
    /\ TagsAndContents(raw_blocks) = << <<"ordered", Sym("o")>>, <<"ordered", Sym("q")>>,
                                        <<"paragraph", Sym("p")>>, <<"bullet", Sym("x")>> >>
    /\ Len(ret) = 5

\* the items of a tag, in order
ItemsTagged(items, tag) == SelectSeq(items, LAMBDA item : item.tag = tag)

\* C24: list merge numbering: in the output of _merge_lists every maximal
\* run of N consecutive ordered items carries the ordinals 1..N in order,
\* whatever extras the input items had, and the numbering starts again at 1
\* in each separate run; bullet items keep their content and todo items
\* their content and checked flag.
C24_MergeNumbering ==
    pc = "merged" =>
        /\ \A k \in DOMAIN ret :
            ret[k].tag = "ordered" =>
                ret[k].extra = (IF k > 1 /\ ret[k - 1].tag = "ordered"
                                THEN Int_(IntVal(ret[k - 1].extra) + 1)
                                ELSE Int_(1))
        /\ ItemsTagged(ret, "todo") = ItemsTagged(raw_blocks, "todo")
        /\ TagsAndContents(ItemsTagged(ret, "bullet"))
                = TagsAndContents(ItemsTagged(raw_blocks, "bullet"))

\* an ordered item that came with the ordinal 5, a second one, a bullet and
\* a third ordered item: the ordinals are 1, 2 and again 1
C24_Witness ==
    /\ pc = "merged"
    /\ raw_blocks = <<RenderItem("ordered", Sym("q"), Int_(5)),
                      RenderItem("ordered", Sym("o"), None),
                      RenderItem("bullet", Sym("x"), None),
                      RenderItem("ordered", Sym("q"), Int_(5))>>
    /\ [k \in DOMAIN ret |-> ret[k].extra] = <<Int_(1), Int_(2), None, Int_(1)>>

\* the places of the input after which a blank is due: the last item of a
\* list run whose next item exists and is not a list item
BlankDue == {i \in 1..(Len(raw_blocks) - 1) :
                raw_blocks[i].tag \in ListTags /\ raw_blocks[i + 1].tag \notin ListTags}

\* C25: blank insertion rule: _merge_lists inserts a blank item exactly
\* after each list run whose next input item exists and is not a list-type
\* tag; none between two adjacent list runs of different types, none after
\* a run that ends the sequence, and none anywhere else.
C25_BlankInsertion ==
    pc = "merged" =>
        /\ \A k \in DOMAIN ret :
            ret[k].tag = "blank" =>
                /\ k > 1 /\ ret[k - 1].tag \in ListTags
                /\ k < Len(ret) /\ ret[k + 1].tag \notin ListTags \cup {"blank"}
        /\ \A k \in 1..(Len(ret) - 1) :
            (ret[k].tag \in ListTags /\ ret[k + 1].tag \notin ListTags)
                => ret[k + 1].tag = "blank"
        /\ Len(ret) = Len(raw_blocks) + Cardinality(BlankDue)

\* a bullet, a todo, a paragraph and an ordered item: the one blank comes
\* after the todo, none between the bullet and the todo, none at the end
C25_Witness ==
    /\ pc = "merged"
    /\ [i \in DOMAIN raw_blocks |-> raw_blocks[i].tag] = <<"bullet", "todo", "paragraph", "ordered">>
    /\ [k \in DOMAIN ret |-> ret[k].tag] = <<"bullet", "todo", "blank", "paragraph", "ordered">>

(***************************************************************************)
(* Inputs of the tree walker: flat documents whose blocks may lack a       *)
(* block_id: a table, a cell and two text blocks, each with a text of its  *)
(* own by which its record is told from the others                         *)
(***************************************************************************)
AnonBlock(id, block_type, content, children) ==
    MkDict(Field("block_id", id)
           \o << <<"block_type", Int_(block_type)>>, <<"text", RichText(<<content>>)>>,
                 <<"children", List(children)>> >>)

\* a block has the id or none
IdChoices(id) == {Absent, Sym(id)}

AnonDocs ==
    {List(<<AnonBlock(table_id, 31, "T", <<>>),
            AnonBlock(cell_id, 32, "C", cell_children),
            AnonBlock(first_id, 2, "P", first_children),
            AnonBlock(second_id, 2, "Q", <<>>)>>) :
        table_id \in IdChoices("tb"), cell_id \in IdChoices("c1"),
        first_id \in IdChoices("p1"), second_id \in IdChoices("p2"),
        cell_children \in ChildLists({"p1"}), first_children \in ChildLists({"p2"})}

InitAnon ==
    /\ pc = "start"
    /\ raw_blocks \in AnonDocs
    /\ opts \in {WalkOptions(max_depth, skip_table_cells) :
                    max_depth \in 0..MaxDepth, skip_table_cells \in BOOLEAN}
    /\ ret = None
    /\ exc = "none"

SpecAnon == InitAnon /\ [][NextWalk]_vars

\* the ids in the children list of a block
IdChildren(block) ==
    LET children == Get(block, "children", EmptyList).v IN
    {c \in {children[i] : i \in DOMAIN children} : IsStr(c)}

RECURSIVE ClosedUnderChildren(_, _)
\* the ids reached from a set of ids through children ids, the set included
ClosedUnderChildren(ids, steps) ==
    IF steps = 0 THEN ids
    ELSE ClosedUnderChildren(
            ids \cup UNION {IdChildren(t) :
                                t \in {u \in TopBlocks : Has(u, "block_id")
                                                          /\ Item(u, "block_id") \in ids}},
            steps - 1)

\* the ids of the transitive descendants of the table cells
UnderCells ==
    ClosedUnderChildren(
        UNION {IdChildren(c) : c \in {t \in TopBlocks : EqInt(Get(t, "block_type", Int_(0)), 32)}},
        Len(raw_blocks.v))

\* the block is a table cell or a transitive descendant of one
CellOrUnderCell(block) ==
    \/ EqInt(Get(block, "block_type", Int_(0)), 32)
    \/ Has(block, "block_id") /\ Item(block, "block_id") \in UnderCells

\* the texts of the records iter_blocks yielded
YieldedTexts == {ret.v[k].text : k \in DOMAIN ret.v}

\* the plain text of a block of AnonDocs
TextOfBlock(block) == extract_from_data(Item(block, "text")).plain

\* C26: suppression is exact: with skip_table_cells set, iter_blocks omits
\* a block reachable within max_depth only if it is a table cell (type 32),
\* a transitive descendant of a table cell through children ids, or lies
\* under a table block; a block that is none of these, such as a block
\* without block_id next to a table cell without block_id, is yielded.
C26_SuppressionExact ==
    (pc = "iterated" /\ raw_blocks \in AnonDocs /\ opts.extract_tables) =>
        /\ exc = "none"
        /\ \A i \in DOMAIN raw_blocks.v :
                ~CellOrUnderCell(raw_blocks.v[i])
                    => TextOfBlock(raw_blocks.v[i]) \in YieldedTexts

(***************************************************************************)
(* Inputs of the Markdown emitter: one block of each type code that        *)
(* BLOCK_TYPES names, with the text "x"                                    *)
(***************************************************************************)
TypeDocs ==
    {List(<<Block("y", block_type, << <<"text", RichText(<<"x">>)>>, NoChildren >>)>>) :
        block_type \in DOMAIN BLOCK_TYPES}

InitTypes ==
    /\ pc = "start"
    /\ raw_blocks \in TypeDocs
    /\ opts \in {MdOptions(extract_tables, extract_whiteboards, merge_lists) :
                    extract_tables \in BOOLEAN, extract_whiteboards \in BOOLEAN,
                    merge_lists \in BOOLEAN}
    /\ ret = None
    /\ exc = "none"

NextTypes == CallToMarkdown

SpecTypes == InitTypes /\ [][NextTypes]_vars

\* the name BLOCK_TYPES gives to the type code of the one block
TypeName == BLOCK_TYPES[IntVal(Item(TheBlock, "block_type"))]

\* the names of the types whose text the emitter or the walker reads
TextBearingNames ==
    {"text", "bullet", "ordered", "code", "quote", "todo", "callout"}
        \cup {HeadingFields[i] : i \in DOMAIN HeadingFields}

\* the Markdown of a document that is one item
MarkdownOfItem(item) == PyJoin(<<"\n">>, LinesOfItem(item))

\* the Markdown of the one block rendered as a table
AsTable ==
    LET block_map == build_block_map(normalize_blocks(raw_blocks).ret.v, 1, <<>>).value
        table_md == IF opts.extract_tables
                    THEN _extract_table_markdown_with_styles(Item(TheBlock, "block_id"), block_map)
                    ELSE Str(<<"[Table with ">> \o Fmt(ChildrenCount(TheBlock)) \o <<" cells]">>)
    IN MarkdownOfItem(RenderItem("table", table_md, None))

\* the Markdown of the one block rendered as a callout
AsCallout == MarkdownOfItem(RenderItem("callout", Sym("x"), None))

\* C27: type table and renderer agree: for every type code, to_markdown
\* renders the block according to the name BLOCK_TYPES gives that code:
\* every block named table is rendered as a table item, every block named
\* callout as a callout (quoted) item, and no block with a named,
\* text-bearing type is dropped from the Markdown output.
C27_TypeTableAgrees ==
    pc = "rendered" =>
        /\ exc = "none"
        /\ TypeName = "table" => ret = AsTable
        /\ TypeName = "callout" => ret = AsCallout
        /\ TypeName \in TextBearingNames => ret # EmptyStr

(***************************************************************************)
(* The Markdown emitter under every setting of its flags: the documents    *)
(* of MdDocuments and the one-block documents of TypeDocs                  *)
(***************************************************************************)
InitFlags ==
    /\ pc = "start"
    /\ raw_blocks \in MdDocuments \cup TypeDocs
    /\ opts \in {MdOptions(extract_tables, extract_whiteboards, merge_lists) :
                    extract_tables \in BOOLEAN, extract_whiteboards \in BOOLEAN,
                    merge_lists \in BOOLEAN}
    /\ ret = None
    /\ exc = "none"

NextFlags == CallToMarkdown

SpecFlags == InitFlags /\ [][NextFlags]_vars

\* the arguments of the call with merge_lists the other way
OtherMergeSetting == [opts EXCEPT !.merge_lists = ~opts.merge_lists]

CharsPerMinute == 500

\* a / b of two ints, kept as the pair
Quotient(a, b) == [k |-> "float", n |-> a, d |-> b]

\* the counting with each count set to 1, not added to
count_types_set_to_one(records, i, acc) ==
    [name \in {records[n].block_type_name.s : n \in i..Len(records)} \cup DOMAIN acc |-> 1]

RECURSIVE count_types(_, _, _)
\* lines 1118-1119: block_type_counts after the records from index i on
count_types(records, i, acc) ==
    IF i > Len(records) THEN acc
    ELSE LET name == records[i].block_type_name.s IN
         count_types(records, i + 1,
                     (name :> (IF name \in DOMAIN acc THEN acc[name] + 1 ELSE 1)) @@ acc)

RECURSIVE text_lengths(_, _)
\* line 1120: the sum of len(block.text) over the records from index i on
text_lengths(records, i) ==
    IF i > Len(records) THEN Int_(0)
    ELSE Let(PyLen(records[i].text), LAMBDA length :
         IF IsExc(length) THEN length
         ELSE Let(text_lengths(records, i + 1), LAMBDA rest :
              IF IsExc(rest) THEN rest ELSE Int_(IntVal(length) + IntVal(rest))))

\* get_document_summary(blocks)
get_document_summary(blocks) ==
    Let(iter_blocks(blocks, DefaultMaxDepth, FALSE), LAMBDA records :
    Let(text_lengths(records.value, 1), LAMBDA total_text_length :
    Let(count_types(records.value, 1, <<>>), LAMBDA block_type_counts :
    IF IsExc(total_text_length) THEN Raise(total_text_length.e)
    ELSE IF records.exc # "none" THEN Raise(records.exc)
    ELSE Return(MkDict(<<
            <<"total_blocks", Int_(Len(records.value))>>,
            <<"block_type_distribution",
              Dict([name \in DOMAIN block_type_counts |-> Int_(block_type_counts[name])])>>,
            <<"total_text_length", total_text_length>>,
            <<"estimated_reading_time_minutes",
              Quotient(IntVal(total_text_length), CharsPerMinute)>> >>)))))

(***************************************************************************)
(* Inputs of the document summary: texts of one and two characters, a      *)
(* struck text without plain text, a block of a type without a name, a     *)
(* block that holds a child block, and a table cell                        *)
(***************************************************************************)
MaxSummaryBlocks == 3

SummaryBlocks ==
    {Block("a", 2, << <<"text", RichText(<<"x", "y">>)>>, NoChildren >>),
     Block("s", 2, << <<"text", StruckText(<<"z">>)>>, NoChildren >>),
     Block("h", 3, << <<"heading1", RichText(<<"T">>)>>, NoChildren >>),
     Block("u", 47, << <<"text", Sym("w")>> >>),
     Block("n", 12, << <<"bullet", RichText(<<"k">>)>>,
                       <<"children", List(<<Block("m", 2, << <<"text", RichText(<<"q">>)>> >>)>>)>> >>),
     Block("c", 32, << NoChildren >>)}

SummaryDocs == {List(q) : q \in SeqsUpTo(SummaryBlocks, MaxSummaryBlocks)}

InitSummary ==
    /\ pc = "start"
    /\ raw_blocks \in SummaryDocs
    /\ opts = MdOptions(FALSE, FALSE, TRUE)
    /\ ret = None
    /\ exc = "none"

CallSummary ==
    /\ pc = "start"
    /\ \E r \in {get_document_summary(raw_blocks)} :
        /\ ret' = r.ret
        /\ exc' = r.exc
    /\ pc' = "summarized"
    /\ UNCHANGED <<raw_blocks, opts>>

NextSummary == CallSummary

SpecSummary == InitSummary /\ [][NextSummary]_vars

RECURSIVE SumOfCounts(_)
\* the sum of the counts of a distribution
SumOfCounts(distribution) ==
    IF DOMAIN distribution = {} THEN 0
    ELSE LET name == CHOOSE key \in DOMAIN distribution : TRUE IN
         IntVal(distribution[name])
            + SumOfCounts([key \in DOMAIN distribution \ {name} |-> distribution[key]])

RECURSIVE SumOfLengths(_)
\* the sum of the lengths of texts
SumOfLengths(texts) ==
    IF texts = <<>> THEN 0 ELSE Len(texts[1].s) + SumOfLengths(Tail(texts))

\* the records iter_blocks yields for the document, as the summary calls it
RecordsOfDocument == iter_blocks(raw_blocks, DefaultMaxDepth, FALSE).value

\* C29: summary consistency: total_blocks of get_document_summary equals
\* the number of records iter_blocks yields and the sum of the counts in
\* block_type_distribution, and total_text_length equals the sum of the
\* lengths of the records' plain texts.
C29_SummaryConsistent ==
    pc = "summarized" =>
        /\ exc = "none"
        /\ Item(ret, "total_blocks") = Int_(Len(RecordsOfDocument))
        /\ SumOfCounts(Item(ret, "block_type_distribution").d) = Len(RecordsOfDocument)
        /\ Item(ret, "total_text_length")
                = Int_(SumOfLengths([i \in DOMAIN RecordsOfDocument |-> RecordsOfDocument[i].text]))

\* two text blocks and a bullet that holds a text block: four records,
\* three of them of type text, and four characters of plain text, the
\* struck text counting none
C29_Witness ==
    /\ pc = "summarized" /\ exc = "none"
    /\ [i \in DOMAIN raw_blocks.v |-> Item(raw_blocks.v[i], "block_id")] = <<Sym("a"), Sym("s"), Sym("n")>>
    /\ Item(ret, "total_blocks") = Int_(4)
    /\ Item(ret, "block_type_distribution")
            = Dict((<<"text">> :> Int_(3)) @@ (<<"bullet">> :> Int_(1)))
    /\ Item(ret, "total_text_length") = Int_(4)

(***************************************************************************)
(* Call logger (logger.py).  The log file is a text of JSON lines, or None *)
(* while the file does not exist.                                          *)
(***************************************************************************)
\* the characters of an error or a response that the summary keeps
SummaryChars == 200
\* the keys of a dict response that the summary names
SummaryKeys == 5

\* s[:n]
Truncated(s, n) == SubSeq(s, 1, IF Len(s) < n THEN Len(s) ELSE n)

\* lines 70-81: the summary of a call, or the exception raised on the way
ResponseSummary(response, error) ==
    IF Truthy(error) THEN
        IF IsStr(error) THEN Str(<<"Error: ">> \o Truncated(error.s, SummaryChars))
        ELSE Exc("TypeError")
    ELSE IF IsDict(response) THEN
        IF Has(response, "error") THEN
            LET api_error == Item(response, "error") IN
            IF IsStr(api_error)
            THEN Str(<<"API Error: ">> \o Truncated(api_error.s, SummaryChars))
            ELSE IF IsList(api_error)
            THEN Str(<<"API Error: ">> \o PyRepr(List(Truncated(api_error.v, SummaryChars))))
            ELSE Exc("TypeError")
        ELSE LET keys == Truncated(SetToSeq(DOMAIN response.d), SummaryKeys) IN
             Str(<<"Dict with keys: ">> \o PyRepr(List([i \in DOMAIN keys |-> Str(keys[i])])))
    ELSE IF IsList(response)
    THEN Str(<<"Array with ">> \o encode_int(Len(response.v)) \o <<" items">>)
    ELSE Str(Truncated(Fmt(response), SummaryChars))

\* asdict(MCPCallRecord(...))
MCPCallRecord(tool_name, timestamp, success, params, response_summary, response_size, error) ==
    MkDict(<< <<"tool_name", tool_name>>, <<"timestamp", timestamp>>,
              <<"success", Bool(success)>>, <<"params", params>>,
              <<"response_summary", response_summary>>,
              <<"response_size", Int_(response_size)>>,
              <<"error", error>>, <<"saved_to_file", None>> >>)

\* log_call(tool_name, params, response, error) at the time `timestamp`: the
\* log file after the call, and what the call returns or raises
log_call(log_file, tool_name, params, response, error, timestamp) ==
    Let(ResponseSummary(response, error), LAMBDA summary :
    IF IsExc(summary) THEN [log_file |-> log_file, ret |-> None, exc |-> summary.e]
    ELSE Let(MCPCallRecord(tool_name, timestamp, IsNone(error), params, summary,
                           Len(json_dumps(response)), error), LAMBDA record :
         [log_file |-> Str((IF IsNone(log_file) THEN <<>> ELSE log_file.s)
                            \o json_dumps(record) \o <<"\n">>),
          ret |-> record,
          exc |-> "none"]))

RECURSIVE FileLines(_)
\* `for line in f`: the lines of a text, each with its line feed
FileLines(text) ==
    LET breaks == {i \in DOMAIN text : text[i] = "\n"} IN
    IF text = <<>> THEN <<>>
    ELSE IF breaks = {} THEN <<text>>
    ELSE <<SubSeq(text, 1, Min(breaks))>> \o FileLines(SubSeq(text, Min(breaks) + 1, Len(text)))

\* the statistics before the first line
NoStats == [total_calls |-> 0, successful_calls |-> 0, failed_calls |-> 0,
            tools_used |-> <<>>, total_response_bytes |-> 0, exc |-> "none"]

\* the key under which tools_used counts a tool name
ToolKey(tool) == IF IsStr(tool) THEN tool.s ELSE PyRepr(tool)

RECURSIVE stats_from(_, _, _)
\* lines 138-156: the loop of get_stats over the lines from index i on
stats_from(lines, i, stats) ==
    IF i > Len(lines) THEN stats
    ELSE Let(json_loads(lines[i]), LAMBDA parsed :
         IF ~parsed.ok THEN stats_from(lines, i + 1, stats)
         ELSE IF ~IsDict(parsed.val) THEN [stats EXCEPT !.exc = "AttributeError"]
         ELSE LET record == parsed.val
                  tool == Get(record, "tool_name", Sym("unknown"))
                  response_size == Get(record, "response_size", Int_(0))
              IN IF ~Hashable(tool) \/ ~IsInt(response_size)
                 THEN [stats EXCEPT !.exc = "TypeError"]
                 ELSE stats_from(lines, i + 1,
                        [total_calls |-> stats.total_calls + 1,
                         successful_calls |-> stats.successful_calls
                                + (IF Truthy(Get(record, "success", None)) THEN 1 ELSE 0),
                         failed_calls |-> stats.failed_calls
                                + (IF Truthy(Get(record, "success", None)) THEN 0 ELSE 1),
                         tools_used |->
                            (ToolKey(tool) :> (IF ToolKey(tool) \in DOMAIN stats.tools_used
                                               THEN stats.tools_used[ToolKey(tool)] + 1
                                               ELSE 1)) @@ stats.tools_used,
                         total_response_bytes |-> stats.total_response_bytes + IntVal(response_size),
                         exc |-> "none"]))

\* get_stats()
get_stats(log_file) ==
    IF IsNone(log_file) THEN Return(MkDict(<< <<"total_calls", Int_(0)>> >>))
    ELSE Let(stats_from(FileLines(log_file.s), 1, NoStats), LAMBDA stats :
         IF stats.exc # "none" THEN Raise(stats.exc)
         ELSE Return(MkDict(<<
                <<"total_calls", Int_(stats.total_calls)>>,
                <<"successful_calls", Int_(stats.successful_calls)>>,
                <<"failed_calls", Int_(stats.failed_calls)>>,
                <<"tools_used", Dict([tool \in DOMAIN stats.tools_used |->
                                        Int_(stats.tools_used[tool])])>>,
                <<"total_response_bytes", Int_(stats.total_response_bytes)>> >>)))

RECURSIVE records_from(_, _)
\* lines 175-179: the records of the lines from index i on that parse
records_from(lines, i) ==
    IF i > Len(lines) THEN <<>>
    ELSE Let(json_loads(lines[i]), LAMBDA parsed :
         (IF parsed.ok THEN <<parsed.val>> ELSE <<>>) \o records_from(lines, i + 1))

\* line 182: records[-limit:]
LastRecords(records, limit) ==
    LET n == Len(records)
        start == -limit
        from == IF start < 0 THEN (IF n + start < 0 THEN 0 ELSE n + start)
                ELSE (IF start > n THEN n ELSE start)
    IN SubSeq(records, from + 1, n)

\* get_recent_calls(limit)
get_recent_calls(log_file, limit) ==
    IF IsNone(log_file) THEN Return(EmptyList)
    ELSE Return(List(LastRecords(records_from(FileLines(log_file.s), 1), limit)))

(***************************************************************************)
(* The call logger as a state machine.  raw_blocks holds the log file,     *)
(* opts the calls of log_call made so far and the limit of the last        *)
(* get_recent_calls, ret and exc the outcome of the last operation.        *)
(***************************************************************************)
MaxCalls == 3

ToolNames == {"search", "fetch"}
\* no error, the empty message, a message
ErrorChoices == {None, EmptyStr, Sym("e")}
\* datetime.now().isoformat()
Timestamp == Sym("2026-01-01T00:00:00")

\* the limits of get_recent_calls: none, some, all, and more than all
Limits == 0..(MaxCalls + 1)

\* after construction the log file does not exist, or is there and empty
InitLog ==
    /\ pc = "start"
    /\ raw_blocks \in {None, EmptyStr}
    /\ opts = [calls |-> <<>>, limit |-> 0]
    /\ ret = None
    /\ exc = "none"

CallLogCall ==
    /\ Len(opts.calls) < MaxCalls
    /\ \E tool_name \in ToolNames, error \in ErrorChoices :
        \E r \in {log_call(raw_blocks, Sym(tool_name), EmptyDict, EmptyList, error, Timestamp)} :
            /\ raw_blocks' = r.log_file
            /\ ret' = r.ret
            /\ exc' = r.exc
            /\ opts' = [calls |-> Append(opts.calls, [tool_name |-> Sym(tool_name), error |-> error]),
                        limit |-> 0]
    /\ pc' = "logged"

CallGetStats ==
    /\ \E r \in {get_stats(raw_blocks)} :
        /\ ret' = r.ret
        /\ exc' = r.exc
    /\ opts' = [opts EXCEPT !.limit = 0]
    /\ pc' = "stats"
    /\ UNCHANGED raw_blocks

CallGetRecentCalls ==
    /\ \E limit \in Limits :
        /\ \E r \in {get_recent_calls(raw_blocks, limit)} :
            /\ ret' = r.ret
            /\ exc' = r.exc
        /\ opts' = [opts EXCEPT !.limit = limit]
    /\ pc' = "recent"
    /\ UNCHANGED raw_blocks

NextLog == CallLogCall \/ CallGetStats \/ CallGetRecentCalls

SpecLog == InitLog /\ [][NextLog]_vars

\* the calls made so far, and those logged with an error
CallsMade == opts.calls
FailedCalls == {i \in DOMAIN CallsMade : ~IsNone(CallsMade[i].error)}

\* the tool name and the error of each record of a list
NamesAndErrors(records) ==
    [i \in DOMAIN records |->
        [tool_name |-> Item(records[i], "tool_name"), error |-> Item(records[i], "error")]]

\* the last n entries of a sequence
LastOf(q, n) == SubSeq(q, Len(q) - n + 1, Len(q))

\* C30: call log accounting: starting from an empty log file, after any
\* sequence of log_call operations get_stats reports total_calls equal to
\* the number of calls made, successful_calls + failed_calls = total_calls,
\* per-tool counts that sum to total_calls, and a call as failed exactly
\* when it was logged with a non-None error; get_recent_calls(limit)
\* returns the last min(limit, total) records in call order.
C30_CallLogAccounting ==
    /\ (pc = "stats" /\ ~IsNone(raw_blocks)) =>
        /\ exc = "none"
        /\ Item(ret, "total_calls") = Int_(Len(CallsMade))
        /\ IntVal(Item(ret, "successful_calls")) + IntVal(Item(ret, "failed_calls"))
                = Len(CallsMade)
        /\ SumOfCounts(Item(ret, "tools_used").d) = Len(CallsMade)
        /\ Item(ret, "failed_calls") = Int_(Cardinality(FailedCalls))
    /\ (pc = "recent" /\ ~IsNone(raw_blocks)) =>
        /\ exc = "none"
        /\ NamesAndErrors(ret.v)
                = LastOf(CallsMade, IF opts.limit < Len(CallsMade) THEN opts.limit
                                    ELSE Len(CallsMade))

====
